---------------------------- MODULE Spec2Model ----------------------------
(***************************************************************************)
(* Model of the template-and-factory expansion pipeline of                 *)
(* azure/cli/command_modules/batch_extensions/_template_utils.py.          *)
(*                                                                         *)
(* Python strings are sequences of one-character strings, so that the      *)
(* regular-expression scans, str(), int() and zfill() are computed and not *)
(* assumed.  JSON objects are functions from key names to values; a key    *)
(* that is absent from a dict is absent from the function's DOMAIN.        *)
(* A call that may raise returns [err, val]: err = "none" on success, else *)
(* the kind of the exception raised.                                       *)
(***************************************************************************)
EXTENDS Integers, Sequences, FiniteSets, TLC

(***************************************************************************)
(* Bounds of the explored inputs.                                          *)
(***************************************************************************)
MaxSets == 2        \* parameter sets of a parametricSweep factory
MaxFiles == 3       \* files listed by the storage collaborator
MaxAbs == 3         \* |start|, |end|, |step| of a single parameter set
MaxTok == 2         \* tokens of a string handed to _replacement_transform
MaxMeta == 2        \* entries of a metadata list
MaxPieces == 2      \* pieces of a string handed to _parse_template_string
MaxArgs == 2        \* arguments of a concat

(***************************************************************************)
(* Results of calls that may raise.                                        *)
(***************************************************************************)
Ok(v) == [err |-> "none", val |-> v]
Err(e) == [err |-> e, val |-> <<>>]
IsOk(r) == r.err = "none"
\* Carry on with the value of a call that returned; an exception propagates
Bind(r, then(_)) == IF IsOk(r) THEN then(r.val) ELSE r

Has(obj, k) == k \in DOMAIN obj
\* dict.update(upd)
Update(obj, upd) ==
    [k \in DOMAIN obj \cup DOMAIN upd |-> IF k \in DOMAIN upd THEN upd[k] ELSE obj[k]]
\* dict without key k (pop(k, None), or a comprehension that skips k)
Without(obj, k) == [j \in DOMAIN obj \ {k} |-> obj[j]]

(***************************************************************************)
(* Characters, str(int), int(str), str.zfill, reversal.                    *)
(***************************************************************************)
DigitChars == <<"0", "1", "2", "3", "4", "5", "6", "7", "8", "9">>
IsDigit(c) == \E d \in 1..10 : DigitChars[d] = c
DigitVal(c) == (CHOOSE d \in 1..10 : DigitChars[d] = c) - 1

RECURSIVE NatStr(_)
NatStr(n) ==
    IF n < 10 THEN <<DigitChars[n + 1]>>
    ELSE NatStr(n \div 10) \o <<DigitChars[(n % 10) + 1]>>
\* str(n) of a Python int
Str(n) == IF n < 0 THEN <<"-">> \o NatStr(0 - n) ELSE NatStr(n)

RECURSIVE ParseNat(_, _)
ParseNat(ds, acc) ==
    IF ds = <<>> THEN acc ELSE ParseNat(Tail(ds), acc * 10 + DigitVal(Head(ds)))
\* int(ds) of a non-empty string of decimal digits
ParseInt(ds) == ParseNat(ds, 0)

Zeros(k) == [i \in 1..k |-> "0"]
\* number_str.zfill(m)
Zfill(s, m) ==
    IF Len(s) >= m THEN s
    ELSE IF s # <<>> /\ s[1] \in {"-", "+"}
         THEN <<s[1]>> \o Zeros(m - Len(s)) \o Tail(s)
         ELSE Zeros(m - Len(s)) \o s

\* s[::-1]
Reverse(s) == [i \in 1..Len(s) |-> s[Len(s) + 1 - i]]

RECURSIVE Flatten(_)
Flatten(ss) == IF ss = <<>> THEN <<>> ELSE Head(ss) \o Flatten(Tail(ss))

\* Mutant of HasBrace: only '{' is looked for
HasBraceLeftOnly(s) == \E i \in 1..Len(s) : s[i] = "{"
HasBrace(s) == \E i \in 1..Len(s) : s[i] \in {"{", "}"}

(***************************************************************************)
(* _transform_sweep_str: re.sub(r'\{(\d+)(:(\d+))?\}', replace, data)      *)
(***************************************************************************)
RECURSIVE DigitsEnd(_, _)
\* index of the first non-digit at or after i (Len+1 when there is none)
DigitsEnd(data, i) ==
    IF i <= Len(data) /\ IsDigit(data[i]) THEN DigitsEnd(data, i + 1) ELSE i

\* The regular expression tried at index i: [matched, r1, colon, r3, stop],
\* stop being the index after the match.
MatchPlaceholder(data, i) ==
    LET none == [matched |-> FALSE, r1 |-> <<>>, colon |-> FALSE, r3 |-> <<>>, stop |-> i]
        d1 == DigitsEnd(data, i + 1)
        d2 == DigitsEnd(data, d1 + 1)
    IN  IF data[i] # "{" \/ d1 = i + 1 \/ d1 > Len(data) THEN none
        ELSE IF data[d1] = "}"
             THEN [matched |-> TRUE, r1 |-> SubSeq(data, i + 1, d1 - 1),
                   colon |-> FALSE, r3 |-> <<>>, stop |-> d1 + 1]
        ELSE IF data[d1] = ":" /\ d2 > d1 + 1 /\ d2 <= Len(data) /\ data[d2] = "}"
             THEN [matched |-> TRUE, r1 |-> SubSeq(data, i + 1, d1 - 1),
                   colon |-> TRUE, r3 |-> SubSeq(data, d1 + 1, d2 - 1), stop |-> d2 + 1]
        ELSE none

\* Mutant of PaddingOk: a width of 10 is accepted
PaddingOkToTen(m) == ~(m < 1 \/ m > 10)
\* The padding width accepted by replace(): 1 to 9
PaddingOk(m) == ~(m < 1 \/ m > 9)

\* replace(match) for sweep values `parameters`
SweepReplace(mt, parameters) ==
    LET n == ParseInt(mt.r1) IN
    IF n >= Len(parameters) THEN Err("out_of_bound")
    ELSE LET number_str == Str(parameters[n + 1]) IN
         IF mt.colon
         THEN IF parameters[n + 1] < 0 THEN Err("negative")
              ELSE IF ~PaddingOk(ParseInt(mt.r3)) THEN Err("padding")
              ELSE Ok(Zfill(number_str, ParseInt(mt.r3)))
         ELSE Ok(number_str)

RECURSIVE SweepScan(_, _, _, _)
SweepScan(data, parameters, i, out) ==
    IF i > Len(data) THEN Ok(out)
    ELSE LET mt == MatchPlaceholder(data, i) IN
         IF mt.matched
         THEN LET r == SweepReplace(mt, parameters) IN
              IF IsOk(r) THEN SweepScan(data, parameters, mt.stop, out \o r.val)
              ELSE r
         ELSE SweepScan(data, parameters, i + 1, Append(out, data[i]))

TransformSweepStr(data, parameters) == SweepScan(data, parameters, 1, <<>>)

(***************************************************************************)
(* _transform_file_str: re.sub("{" + prop + "}", file_ref[prop], content)  *)
(* for each of the four properties in turn.                                *)
(***************************************************************************)
FileProps == <<"url", "filePath", "fileName", "fileNameWithoutExtension">>
\* The characters of a property name
PropChars(prop) ==
    CASE prop = "url" -> <<"u", "r", "l">>
      [] prop = "filePath" -> <<"f", "i", "l", "e", "P", "a", "t", "h">>
      [] prop = "fileName" -> <<"f", "i", "l", "e", "N", "a", "m", "e">>
      [] prop = "fileNameWithoutExtension" ->
            <<"f", "i", "l", "e", "N", "a", "m", "e", "W", "i", "t", "h", "o", "u", "t",
              "E", "x", "t", "e", "n", "s", "i", "o", "n">>
\* "{" + prop + "}"
FilePattern(prop) == <<"{">> \o PropChars(prop) \o <<"}">>

RECURSIVE SubLiteral(_, _, _, _, _)
\* re.sub of a literal pattern: leftmost, non-overlapping occurrences
SubLiteral(content, pat, repl, i, out) ==
    IF i > Len(content) THEN out
    ELSE IF i + Len(pat) - 1 <= Len(content) /\ SubSeq(content, i, i + Len(pat) - 1) = pat
         THEN SubLiteral(content, pat, repl, i + Len(pat), out \o repl)
         ELSE SubLiteral(content, pat, repl, i + 1, Append(out, content[i]))

RECURSIVE FileScan(_, _, _)
FileScan(content, file_ref, k) ==
    IF k > Len(FileProps) THEN content
    ELSE FileScan(SubLiteral(content, FilePattern(FileProps[k]), file_ref[FileProps[k]], 1, <<>>),
                  file_ref, k + 1)

TransformFileStr(content, file_ref) == Ok(FileScan(content, file_ref, 1))

(***************************************************************************)
(* _replacement_transform                                                  *)
(***************************************************************************)
LEFT_BRACKET_REPLACE_CHAR == "U+E800"
RIGHT_BRACKET_REPLACE_CHAR == "U+E801"

\* re.sub of the two-character pattern c c by repl
SubDouble(s, c, repl) == SubLiteral(s, <<c, c>>, <<repl>>, 1, <<>>)
\* re.sub of the one-character pattern c by repl
SubChar(s, c, repl) == [i \in 1..Len(s) |-> IF s[i] = c THEN repl ELSE s[i]]

\* lines 807-808: '{{' is paired from the left, '}}' from the right
EscapeBraces(source_str) ==
    Reverse(SubDouble(Reverse(SubDouble(source_str, "{", LEFT_BRACKET_REPLACE_CHAR)),
                      "}", RIGHT_BRACKET_REPLACE_CHAR))

\* lines 814-815
RestoreBraces(transformed) ==
    SubChar(SubChar(transformed, LEFT_BRACKET_REPLACE_CHAR, "{"),
            RIGHT_BRACKET_REPLACE_CHAR, "}")

\* transformer(transformed, context); transformer is "sweep" or "file"
Transformer(transformer, data, context) ==
    IF transformer = "sweep" THEN TransformSweepStr(data, context)
    ELSE TransformFileStr(data, context)

\* The dict handed to dict.update(): {} when the key is absent or empty.
ReplacementTransform(transformer, source_obj, source_key, context) ==
    IF ~Has(source_obj, source_key) \/ source_obj[source_key] = <<>> THEN Ok(<<>>)
    ELSE LET r == Transformer(transformer, EscapeBraces(source_obj[source_key]), context) IN
         IF ~IsOk(r) THEN r
         ELSE IF HasBrace(r.val) THEN Err("unescaped_brace")
         ELSE Ok(source_key :> RestoreBraces(r.val))

(***************************************************************************)
(* _parse_parameter_sets                                                   *)
(***************************************************************************)
RECURSIVE Range(_, _, _)
\* range(start, stop, step), step # 0
Range(start, stop, step) ==
    IF (step > 0 /\ start < stop) \/ (step < 0 /\ start > stop)
    THEN <<start>> \o Range(start + step, stop, step)
    ELSE <<>>

\* line 893: the stop handed to range()
RangeStop(start, end) == IF end >= start THEN end + 1 ELSE end - 1

\* lines 877-894, the body of the loop for one parameter set
ParseParameterSet(params) ==
    IF ~Has(params, "start") \/ ~Has(params, "end") THEN Err("missing_key")
    ELSE LET start == params["start"]
             end == params["end"]
             step == IF Has(params, "step") THEN params["step"] ELSE 1
         IN  IF step = 0 THEN Err("step_zero")
             ELSE IF start > end /\ step > 0 THEN Err("step_must_be_negative")
             ELSE IF start < end /\ step < 0 THEN Err("step_must_be_positive")
             ELSE Ok(Range(start, RangeStop(start, end), step))

\* Mutant of ProductStep: the loops exchanged, the first set varying fastest
ProductStepFirstFastest(result, pool) ==
    Flatten([j \in 1..Len(pool) |-> [i \in 1..Len(result) |-> Append(result[i], pool[j])]])
\* [x + (y,) for x in result for y in pool]
ProductStep(result, pool) ==
    Flatten([i \in 1..Len(result) |-> [j \in 1..Len(pool) |-> Append(result[i], pool[j])]])

RECURSIVE ProductFrom(_, _)
ProductFrom(pools, result) ==
    IF pools = <<>> THEN result ELSE ProductFrom(Tail(pools), ProductStep(result, Head(pools)))
\* itertools.product(*pools)
Product(pools) == ProductFrom(pools, << <<>> >>)

RECURSIVE ParseSetsFrom(_, _)
ParseSetsFrom(parameter_sets, iterations) ==
    IF parameter_sets = <<>> THEN Ok(Product(iterations))
    ELSE LET r == ParseParameterSet(Head(parameter_sets)) IN
         IF IsOk(r) THEN ParseSetsFrom(Tail(parameter_sets), Append(iterations, r.val))
         ELSE r

ParseParameterSets(parameter_sets) ==
    IF parameter_sets = <<>> THEN Err("no_parameter_set")
    ELSE ParseSetsFrom(parameter_sets, <<>>)

(***************************************************************************)
(* Repeat tasks and the task factories                                     *)
(***************************************************************************)
PROPS_ON_REPEAT_TASK ==
    {"displayName", "resourceFiles", "environmentSettings", "constraints", "userIdentity",
     "exitConditions", "clientExtensions", "outputFiles", "packageReferences"}
PROPS_ON_COLLECTION_TASK == PROPS_ON_REPEAT_TASK \cup {"multiInstanceSettings", "dependsOn"}

\* Truth value of a modelled property value (a string or a list)
Truthy(v) == v # <<>>

\* {p: task.get(p) for p in props if task.get(p)}
TruthyProps(task, props) ==
    [p \in {q \in props \cap DOMAIN task : Truthy(task[q])} |-> task[p]]

ParseRepeatTask(task) ==
    IF Has(task, "id") THEN Err("repeat_task_has_id")
    ELSE IF ~Has(task, "commandLine") THEN Err("repeat_task_no_command_line")
    ELSE Ok(Update([commandLine |-> task["commandLine"]],
                   TruthyProps(task, PROPS_ON_REPEAT_TASK)))

\* Mutant of TaskId: ids counted from 1
TaskIdFromOne(index) == Str(index + 1)
\* The id given to the task expanded at position `index`
TaskId(index) == Str(index)

\* The modelled tasks carry commandLine and displayName only; the loops over
\* resourceFiles, environmentSettings, outputFiles and dockerOptions run over
\* their defaults, the empty lists.
TransformRepeatTask(task, context, index, transformer) ==
    Bind(ReplacementTransform(transformer, task, "commandLine", context),
         LAMBDA r1 :
           Bind(ReplacementTransform(transformer, Update(task, r1), "displayName", context),
                LAMBDA r2 : Ok(Update(Update(Update(task, r1), r2), [id |-> TaskId(index)]))))

\* A list comprehension over calls that may raise: the list of the values, or
\* the error of the first call that raised
Comprehension(results) ==
    IF \A i \in 1..Len(results) : IsOk(results[i])
    THEN Ok([i \in 1..Len(results) |-> results[i].val])
    ELSE results[CHOOSE i \in 1..Len(results) :
                   ~IsOk(results[i]) /\ \A j \in 1..(i - 1) : IsOk(results[j])]

\* [_transform_repeat_task(repeat_task, p, i, transformer) for i, p in enumerate(contexts)]
TransformAll(repeat_task, contexts, transformer) ==
    Comprehension([i \in 1..Len(contexts) |->
                     TransformRepeatTask(repeat_task, contexts[i], i - 1, transformer)])

MergeId == <<"m", "e", "r", "g", "e">>
\* lines 928-931 and 977-980: dependsOn of the merge task
MergeDependsOn(task_objs) == [taskIdRanges |-> [start |-> 0, end |-> Len(task_objs) - 1]]

\* lines 927-934 and 976-983
AppendMergeTask(factory, task_objs) ==
    IF ~Has(factory, "mergeTask") THEN Ok(task_objs)
    ELSE Bind(ParseRepeatTask(factory["mergeTask"]),
              LAMBDA m : Ok(Append(task_objs,
                                   Update(m, [id |-> MergeId,
                                              dependsOn |-> MergeDependsOn(task_objs)]))))

ExpandParametricSweep(factory) ==
    IF ~Has(factory, "parameterSets") THEN Err("parameter_set_missing")
    ELSE Bind(ParseParameterSets(factory["parameterSets"]),
              LAMBDA perms :
                IF ~Has(factory, "repeatTask") THEN Err("no_repeat_task")
                ELSE Bind(ParseRepeatTask(factory["repeatTask"]),
                          LAMBDA repeat_task :
                            Bind(TransformAll(repeat_task, perms, "sweep"),
                                 LAMBDA tasks : AppendMergeTask(factory, tasks))))

ExpandTaskPerFile(factory, files) ==
    IF ~Has(factory, "source") THEN Err("no_file_source")
    ELSE IF ~Has(factory, "repeatTask") THEN Err("no_repeat_task")
    ELSE Bind(ParseRepeatTask(factory["repeatTask"]),
              LAMBDA repeat_task :
                Bind(TransformAll(repeat_task, files, "file"),
                     LAMBDA tasks : AppendMergeTask(factory, tasks)))

RECURSIVE CollectTasks(_, _)
CollectTasks(tasks, out) ==
    IF tasks = <<>> THEN Ok(out)
    ELSE LET task == Head(tasks) IN
         IF ~Has(task, "id") \/ ~Has(task, "commandLine") THEN Err("collection_task_incomplete")
         ELSE CollectTasks(Tail(tasks),
                           Append(out, Update([id |-> task["id"], commandLine |-> task["commandLine"]],
                                              TruthyProps(task, PROPS_ON_COLLECTION_TASK))))

ExpandTaskCollection(factory) ==
    IF ~Has(factory, "tasks") THEN Err("no_tasks") ELSE CollectTasks(factory["tasks"], <<>>)

\* lines 1047-1058, after job_obj.pop('taskFactory')
ExpandFactory(factory, files) ==
    IF ~Has(factory, "type") THEN Err("no_type")
    ELSE IF factory["type"] = "parametricSweep" THEN ExpandParametricSweep(factory)
    ELSE IF factory["type"] = "taskCollection" THEN ExpandTaskCollection(factory)
    ELSE IF factory["type"] = "taskPerFile" THEN ExpandTaskPerFile(factory, files)
    ELSE Err("invalid_factory_type")

\* expand_task_factory: [err, val (the task list), job (job_obj afterwards),
\* factory (the local task_factory)]
ExpandTaskFactory(job_obj, files) ==
    IF ~Has(job_obj, "taskFactory")
    THEN [err |-> "KeyError", val |-> <<>>, job |-> job_obj, factory |-> <<>>]
    ELSE Update([job |-> Without(job_obj, "taskFactory"), factory |-> job_obj["taskFactory"]],
                ExpandFactory(job_obj["taskFactory"], files))

(***************************************************************************)
(* Python values read from JSON.  A parameter value or a rendered scalar   *)
(* is a record of one field, named after its Python type, since the code   *)
(* branches on the type (isinstance, truth value, == True).                *)
(***************************************************************************)
PyNone == [NoneType |-> <<>>]
PyInt(i) == [int |-> i]
PyBool(b) == [bool |-> b]
PyStr(s) == [str |-> s]
PyDict(d) == [dict |-> d]
\* type(value).__name__, and the int, bool, text or dict the value wraps
TypeOf(value) == CHOOSE t \in DOMAIN value : TRUE
ValueOf(value) == value[TypeOf(value)]

\* bool(value)
PyTruthy(value) ==
    CASE TypeOf(value) = "int" -> ValueOf(value) # 0
      [] TypeOf(value) = "bool" -> ValueOf(value)
      [] TypeOf(value) = "str" -> ValueOf(value) # <<>>
      [] TypeOf(value) = "dict" -> DOMAIN ValueOf(value) # {}
      [] OTHER -> FALSE

\* str(value); of a dict only the opening and closing brace are kept, the
\* callers compare the text with 'true' and 'false' only
PyStrOf(value) ==
    CASE TypeOf(value) = "int" -> Str(ValueOf(value))
      [] TypeOf(value) = "bool" ->
           IF ValueOf(value) THEN <<"T", "r", "u", "e">> ELSE <<"F", "a", "l", "s", "e">>
      [] TypeOf(value) = "str" -> ValueOf(value)
      [] TypeOf(value) = "dict" -> <<"{", "}">>
      [] OTHER -> <<"N", "o", "n", "e">>

\* int(s) of a str written without blanks and underscores
PyIntOfStr(s) ==
    LET signed == s # <<>> /\ s[1] \in {"-", "+"}
        digits == IF signed THEN Tail(s) ELSE s
    IN  IF digits = <<>> \/ \E i \in 1..Len(digits) : ~IsDigit(digits[i])
        THEN Err("ValueError")
        ELSE Ok(IF s[1] = "-" THEN 0 - ParseInt(digits) ELSE ParseInt(digits))

\* int(value)
PyIntOf(value) ==
    CASE TypeOf(value) = "int" -> Ok(ValueOf(value))
      [] TypeOf(value) = "bool" -> Ok(IF ValueOf(value) THEN 1 ELSE 0)
      [] TypeOf(value) = "str" -> PyIntOfStr(ValueOf(value))
      [] OTHER -> Err("TypeError")

UpperChars == <<"A", "B", "C", "D", "E", "F", "G", "H", "I", "J", "K", "L", "M", "N", "O", "P", "Q", "R", "S", "T", "U", "V", "W", "X", "Y", "Z">>
LowerChars == <<"a", "b", "c", "d", "e", "f", "g", "h", "i", "j", "k", "l", "m", "n", "o", "p", "q", "r", "s", "t", "u", "v", "w", "x", "y", "z">>
LowerChar(c) ==
    IF \E i \in 1..26 : UpperChars[i] = c
    THEN LowerChars[CHOOSE i \in 1..26 : UpperChars[i] = c]
    ELSE c
\* s.lower()
Lower(s) == [i \in 1..Len(s) |-> LowerChar(s[i])]

\* s.startswith(prefix)
StartsWith(s, prefix) == Len(s) >= Len(prefix) /\ SubSeq(s, 1, Len(prefix)) = prefix

\* obj.get(k) where a missing value and an empty one are treated alike by
\* the callers (None and {} for parameters, None and [] for metadata)
GetOr(obj, k, empty) == IF Has(obj, k) THEN obj[k] ELSE empty
\* obj.get(k) is None
IsNone(obj, k) == ~Has(obj, k) \/ obj[k] = PyNone

\* The keys that occur in the modelled JSON files, in the order in which the
\* files list them: a dict read from a file iterates in that order.
KeyOrder ==
    <<"id", "displayName", "priority", "constraints", "poolInfo", "applicationTemplateInfo",
      "templateMetadata", "parameters", "metadata",
      "jobManagerTask", "jobPreparationTask", "jobReleaseTask", "commonEnvironmentSettings",
      "usesTaskDependencies", "onAllTasksComplete", "onTaskFailure", "taskFactory",
      "foo", "n", "s", "z">>
Keys(obj) == SelectSeq(KeyOrder, LAMBDA k : k \in DOMAIN obj)

(***************************************************************************)
(* The property sets of lines 37-60                                        *)
(***************************************************************************)
\* Mutant of PROPS_RESERVED_FOR_TEMPLATES: taskFactory is not reserved
PropsReservedWithoutTaskFactory ==
    {"jobManagerTask", "jobPreparationTask", "jobReleaseTask", "commonEnvironmentSettings",
     "usesTaskDependencies", "onAllTasksComplete", "onTaskFailure"}
PROPS_RESERVED_FOR_TEMPLATES ==
    {"jobManagerTask", "jobPreparationTask", "jobReleaseTask", "commonEnvironmentSettings",
     "usesTaskDependencies", "onAllTasksComplete", "onTaskFailure", "taskFactory"}
\* Mutant of PROPS_PERMITTED_ON_TEMPLATES: metadata is not permitted
PropsPermittedWithoutMetadata ==
    PROPS_RESERVED_FOR_TEMPLATES \cup {"templateMetadata", "parameters"}
PROPS_PERMITTED_ON_TEMPLATES ==
    PROPS_RESERVED_FOR_TEMPLATES \cup {"templateMetadata", "parameters", "metadata"}
PROPS_RESERVED_FOR_JOBS ==
    {"id", "displayName", "priority", "constraints", "poolInfo", "applicationTemplateInfo"}

(***************************************************************************)
(* _validate_int, _validate_string, _validate_bool                         *)
(***************************************************************************)
\* lines 89-101, minValue and maxValue being JSON integers
IntInRange(n, original, content) ==
    IF Str(n) # original THEN Err("TypeError")
    ELSE IF Has(content, "minValue") /\ n < content["minValue"] THEN Err("minimum_value")
    ELSE IF Has(content, "maxValue") /\ n > content["maxValue"] THEN Err("maximum_value")
    ELSE Ok(PyInt(n))

ValidateInt(value, content) ==
    IF IsOk(PyIntOf(value)) THEN IntInRange(PyIntOf(value).val, PyStrOf(value), content)
    ELSE Err("TypeError")

ValidateString(value, content) ==
    IF value = PyNone \/ value = PyStr(<<>>) THEN Err("TypeError")
    ELSE IF Has(content, "minLength") /\ Len(PyStrOf(value)) < content["minLength"]
         THEN Err("minimum_length")
    ELSE IF Has(content, "maxLength") /\ Len(PyStrOf(value)) > content["maxLength"]
         THEN Err("maximum_length")
    ELSE Ok(PyStr(PyStrOf(value)))

\* `value in [True, False]` holds of the ints 1 and 0 as well, which are
\* returned as they are
ValidateBool(value) ==
    IF TypeOf(value) = "bool" \/ (TypeOf(value) = "int" /\ ValueOf(value) \in {0, 1})
    THEN Ok(value)
    ELSE IF Lower(PyStrOf(value)) = <<"t", "r", "u", "e">> THEN Ok(PyBool(TRUE))
    ELSE IF Lower(PyStrOf(value)) = <<"f", "a", "l", "s", "e">> THEN Ok(PyBool(FALSE))
    ELSE Err("TypeError")

(***************************************************************************)
(* Metadata                                                                *)
(***************************************************************************)
Names(metadata) == [i \in 1..Len(metadata) |-> metadata[i].name]
InSeq(x, s) == \E i \in 1..Len(s) : s[i] = x

\* Mutant of MergeMetadata: the job's entries come first
MergeMetadataJobFirst(base_metadata, more_metadata) ==
    IF \E i \in 1..Len(more_metadata) : InSeq(more_metadata[i].name, Names(base_metadata))
    THEN Err("metadata_conflict")
    ELSE Ok(more_metadata \o base_metadata)
\* conflicts are the names of more_metadata found in base_metadata
MergeMetadata(base_metadata, more_metadata) ==
    IF \E i \in 1..Len(more_metadata) : InSeq(more_metadata[i].name, Names(base_metadata))
    THEN Err("metadata_conflict")
    ELSE Ok(base_metadata \o more_metadata)

AZ_BATCH == <<"a", "z", "_", "b", "a", "t", "c", "h">>
ValidateMetadata(metadata) ==
    IF \E i \in 1..Len(metadata) : StartsWith(metadata[i].name, AZ_BATCH)
    THEN Err("metadata_reserved_prefix")
    ELSE Ok(metadata)

TEMPLATE_FILEPATH == <<"a", "z", "_", "b", "a", "t", "c", "h", ":", "t", "e", "m", "p", "l", "a", "t", "e", "_", "f", "i", "l", "e", "p", "a", "t", "h">>
\* line 1011
TemplateFilepathEntry(template_filepath) ==
    [name |-> TEMPLATE_FILEPATH, value |-> PyStr(template_filepath)]

(***************************************************************************)
(* The job that requests a template, and the template file                 *)
(***************************************************************************)
\* os.path.normpath(os.path.join(working_dir, filePath)) of a relative path
\* without '.', '..' or doubled separators
ResolveTemplateFile(job, working_dir) ==
    working_dir \o <<"/">> \o job["applicationTemplateInfo"]["filePath"]

\* fs maps the paths of the readable files to their content
ValidateJobRequestingAppTemplate(job, working_dir, fs) ==
    IF IsNone(job, "applicationTemplateInfo") THEN Ok(job)
    ELSE IF GetOr(job["applicationTemplateInfo"], "filePath", <<>>) = <<>>
         THEN Err("no_file_path")
    ELSE IF ResolveTemplateFile(job, working_dir) \notin DOMAIN fs
         THEN Err("template_unreadable")
    ELSE IF DOMAIN job \cap PROPS_RESERVED_FOR_TEMPLATES # {}
         THEN Err("job_uses_template_property")
    ELSE Ok(job)

\* lines 997-1003: read the file and json.loads it
LoadTemplate(template_filepath, fs) ==
    IF template_filepath \notin DOMAIN fs THEN Err("template_parse_failed")
    ELSE IF ~fs[template_filepath].json THEN Err("template_parse_failed")
    ELSE Ok(fs[template_filepath].obj)

SUPPORTED_TYPES == {"int", "string", "bool"}
RECURSIVE ValidateParameterTypes(_, _)
\* lines 400-406
ValidateParameterTypes(names, parameters) ==
    IF names = <<>> THEN Ok(parameters)
    ELSE IF ~Has(parameters[Head(names)], "type") THEN Err("parameter_without_type")
    ELSE IF parameters[Head(names)]["type"] \notin SUPPORTED_TYPES
         THEN Err("parameter_unsupported_type")
    ELSE ValidateParameterTypes(Tail(names), parameters)

ValidateApplicationTemplate(template) ==
    IF DOMAIN template \cap PROPS_RESERVED_FOR_JOBS # {}
    THEN Err("template_uses_job_property")
    ELSE IF ~(DOMAIN template \subseteq PROPS_PERMITTED_ON_TEMPLATES)
         THEN Err("template_uses_unsupported_property")
    ELSE Bind(ValidateParameterTypes(Keys(GetOr(template, "parameters", <<>>)),
                                     GetOr(template, "parameters", <<>>)),
              LAMBDA parameters : Ok(template))

\* lines 329-346
ValidateParameterValue(definition, parameter) ==
    IF parameter = PyNone THEN Err("parameter_value_missing")
    ELSE IF definition["type"] = "int" /\ ValidateInt(parameter, <<>>).err = "TypeError"
         THEN Err("parameter_not_int")
    ELSE IF definition["type"] = "bool" /\ ValidateBool(parameter).err = "TypeError"
         THEN Err("parameter_not_bool")
    ELSE Ok(parameter)

RECURSIVE ValidateParameterValues(_, _, _)
ValidateParameterValues(names, parameters, definitions) ==
    IF names = <<>> THEN Ok(parameters)
    ELSE Bind(ValidateParameterValue(
                  definitions[Head(names)],
                  GetOr(parameters, Head(names),
                        GetOr(definitions[Head(names)], "defaultValue", PyNone))),
              LAMBDA parameter : ValidateParameterValues(Tail(names), parameters, definitions))

ValidateParameterUsage(parameters, definitions) ==
    Bind(ValidateParameterValues(Keys(definitions), parameters, definitions),
         LAMBDA checked :
           IF DOMAIN parameters \ DOMAIN definitions # {} THEN Err("parameter_unexpected")
           ELSE Ok(parameters))

\* Mutant of ValidateGeneratedJob: the rendered template is not looked at
GeneratedJobUnchecked(job) == Ok(job)
ValidateGeneratedJob(job) ==
    IF DOMAIN job \cap PROPS_RESERVED_FOR_JOBS # {} THEN Err("generated_job_uses_job_property")
    ELSE Ok(job)

(***************************************************************************)
(* Rendering.  A template is modelled by its JSON tree.  Its string values *)
(* are free of quotes and backslashes and are of two forms: literal text   *)
(* without '[', and the expression "[parameters('name')]" taking up the    *)
(* whole value; the values supplied for string parameters are free of      *)
(* quotes and backslashes too.  On such templates rendering the text and   *)
(* loading the result is rendering each string of the tree.  The strings   *)
(* sit in the values of the metadata entries and in the top-level          *)
(* properties other than parameters, templateMetadata and taskFactory.     *)
(***************************************************************************)
TemplateLiteral(text) == [kind |-> "literal", text |-> text, name |-> ""]
ParameterExpression(name) == [kind |-> "parameters", text |-> <<>>, name |-> name]

\* lines 493-502: the default, or the supplied value taken out of {"value": v}
UserValue(param_def, name, parameters) ==
    IF ~Has(parameters, name) THEN Ok(GetOr(param_def, "defaultValue", PyNone))
    ELSE IF TypeOf(parameters[name]) # "dict" THEN Ok(parameters[name])
    ELSE IF Has(ValueOf(parameters[name]), "value") THEN Ok(ValueOf(parameters[name])["value"])
    ELSE Err("KeyError")

\* lines 503-516; a dict value holds no expression and renders to itself
TypedUserValue(param_def, user_value) ==
    IF ~PyTruthy(user_value) THEN Err("no_value_supplied")
    ELSE IF TypeOf(user_value) = "dict" THEN Ok(user_value)
    ELSE IF ~Has(param_def, "type") THEN Err("KeyError")
    ELSE IF param_def["type"] = "int" THEN ValidateInt(user_value, param_def)
    ELSE IF param_def["type"] = "bool" THEN ValidateBool(user_value)
    ELSE IF param_def["type"] = "string" THEN ValidateString(user_value, param_def)
    ELSE Err("TypeError")

ParseArmParameter(name, template_obj, parameters) ==
    IF ~Has(template_obj, "parameters") THEN Err("template_without_parameters")
    ELSE IF ~Has(template_obj["parameters"], name) THEN Err("parameter_undefined")
    ELSE Bind(UserValue(template_obj["parameters"][name], name, parameters),
              LAMBDA user_value : TypedUserValue(template_obj["parameters"][name], user_value))

\* The value json.loads finds where the string stood: a bool, an int or a dict
\* replaces the string and its quotes, any other result is a str inside them
ParseTemplateString(string_content, template_obj, parameters) ==
    IF string_content.kind = "literal" THEN Ok(PyStr(string_content.text))
    ELSE Bind(ParseArmParameter(string_content.name, template_obj, parameters),
              LAMBDA parsed : Ok(IF TypeOf(parsed) \in {"bool", "int", "dict"} THEN parsed
                                 ELSE PyStr(PyStrOf(parsed))))

UNPARSED_PROPS == {"parameters", "templateMetadata", "taskFactory"}
RECURSIVE JsonLoadsAt(_, _)
RECURSIVE JsonMembersAt(_, _, _)
RECURSIVE JsonItemsAt(_, _, _)
\* json.loads, of the value that starts at piece i of the text: the value,
\* and the place after it
JsonLoadsAt(text, i) ==
    IF text[i] = "{" THEN JsonMembersAt(text, i + 1, <<>>)
    ELSE IF text[i] = "[" THEN JsonItemsAt(text, i + 1, <<>>)
    ELSE [val |-> text[i + 1], next |-> i + 3]
\* the members of an object, up to its '}'
JsonMembersAt(text, i, obj) ==
    IF text[i] = "}" THEN [val |-> obj, next |-> i + 1]
    ELSE IF text[i] = ", " THEN JsonMembersAt(text, i + 1, obj)
    ELSE JsonMembersAt(text, JsonLoadsAt(text, i + 4).next,
                       Update(obj, (text[i + 1] :> JsonLoadsAt(text, i + 4).val)))
\* the items of a list, up to its ']'
JsonItemsAt(text, i, items) ==
    IF text[i] = "]" THEN [val |-> items, next |-> i + 1]
    ELSE IF text[i] = ", " THEN JsonItemsAt(text, i + 1, items)
    ELSE JsonItemsAt(text, JsonLoadsAt(text, i).next, Append(items, JsonLoadsAt(text, i).val))
JsonLoads(text) == JsonLoadsAt(text, 1).val

\* line 669 for one property: the members json.loads reads where the
\* property stood. The text of a str is put between the quotes as it is, so a
\* quote in it ends the string and what follows is read as JSON.
LoadedMembers(key, value) ==
    IF key \notin UNPARSED_PROPS \cup {"metadata"}
         /\ TypeOf(value) = "str" /\ InSeq("\"", ValueOf(value))
    THEN [k \in DOMAIN JsonMembersAt(<<"\"", key, "\"", ": ", "\"">> \o ValueOf(value) \o <<"\"", "}">>,
                                     1, <<>>).val |->
             PyStr(<<JsonMembersAt(<<"\"", key, "\"", ": ", "\"">> \o ValueOf(value) \o <<"\"", "}">>,
                                   1, <<>>).val[k]>>)]
    ELSE (key :> value)

RECURSIVE ParseMetadataStrings(_, _, _, _)
ParseMetadataStrings(entries, template_obj, parameters, out) ==
    IF entries = <<>> THEN Ok(out)
    ELSE Bind(ParseTemplateString(Head(entries).value, template_obj, parameters),
              LAMBDA value :
                ParseMetadataStrings(Tail(entries), template_obj, parameters,
                                     Append(out, Update([name |-> Head(entries).name],
                                                        LoadedMembers("value", value)))))

ParseProperty(key, template_obj, parameters) ==
    IF key \in UNPARSED_PROPS THEN Ok(template_obj[key])
    ELSE IF key = "metadata"
         THEN ParseMetadataStrings(template_obj[key], template_obj, parameters, <<>>)
    ELSE ParseTemplateString(template_obj[key], template_obj, parameters)

RECURSIVE ParseProperties(_, _, _, _)
\* the strings are rendered in the order of the text
ParseProperties(keys, template_obj, parameters, out) ==
    IF keys = <<>> THEN Ok(out)
    ELSE Bind(ParseProperty(Head(keys), template_obj, parameters),
              LAMBDA value :
                ParseProperties(Tail(keys), template_obj, parameters,
                                Update(out, LoadedMembers(Head(keys), value))))

ParseTemplate(template_obj, parameters) ==
    ParseProperties(Keys(template_obj), template_obj, parameters, <<>>)

(***************************************************************************)
(* expand_application_template                                             *)
(***************************************************************************)
\* Mutant of TEMPLATE_KEYS: parameters is left on the job
TemplateKeysWithoutParameters == {"applicationTemplateInfo", "templateMetadata"}
\* line 1017
TEMPLATE_KEYS == {"applicationTemplateInfo", "templateMetadata", "parameters"}

\* lines 1016-1019
MergeJob(job, job_from_template, metadata) ==
    Update([k \in DOMAIN Update(job, job_from_template) \ TEMPLATE_KEYS |->
               Update(job, job_from_template)[k]],
           [metadata |-> metadata])

\* lines 1004-1020
ExpandLoadedTemplate(job, template_filepath, template_loaded) ==
    Bind(ValidateApplicationTemplate(template_loaded), LAMBDA valid :
    Bind(ValidateParameterUsage(GetOr(job["applicationTemplateInfo"], "parameters", <<>>),
                                GetOr(template_loaded, "parameters", <<>>)), LAMBDA used :
    Bind(ParseTemplate(template_loaded,
                       GetOr(job["applicationTemplateInfo"], "parameters", <<>>)),
         LAMBDA job_from_template :
    Bind(MergeMetadata(GetOr(job_from_template, "metadata", <<>>),
                       GetOr(job, "metadata", <<>>)), LAMBDA merged :
    Bind(ValidateMetadata(merged), LAMBDA metadata :
    Bind(ValidateGeneratedJob(job_from_template), LAMBDA generated :
         Ok(MergeJob(job, job_from_template,
                     Append(metadata, TemplateFilepathEntry(template_filepath))))))))))

\* Mutant of RaisedJob: the reference to the template is taken off the job
\* before the template is looked at
RaisedJobWithoutReference(job, err) == [k \in DOMAIN job \ {"applicationTemplateInfo"} |-> job[k]]
\* lines 991-1014: the job as a raise leaves it; job is first written to at
\* line 1016, after the last statement that can raise
RaisedJob(job, err) == job

\* [err, val]: val is the job as the call leaves it when it returns
ExpandApplicationTemplate(job, working_dir, fs) ==
    IF IsNone(job, "applicationTemplateInfo") THEN Ok(job)
    ELSE Bind(ValidateJobRequestingAppTemplate(job, working_dir, fs), LAMBDA requested :
         Bind(LoadTemplate(ResolveTemplateFile(job, working_dir), fs), LAMBDA template_loaded :
              ExpandLoadedTemplate(job, ResolveTemplateFile(job, working_dir), template_loaded)))

(***************************************************************************)
(* Rendering of the text of one JSON string: _find, _find_nested,          *)
(* _parse_arm_expression, _parse_arm_variable, _parse_arm_concat and       *)
(* _parse_template_string.  Indexes are Python's, counted from 0.  The     *)
(* names of parameters and variables are one character long; a dict value  *)
(* has one key, a one-character name, and an int under it.                 *)
(***************************************************************************)
\* an index of a slice brought into 0..n
SliceIndex(i, n) == IF i < 0 THEN (IF i + n < 0 THEN 0 ELSE i + n) ELSE IF i > n THEN n ELSE i
\* s[a:b]
PySlice(s, a, b) ==
    IF SliceIndex(a, Len(s)) >= SliceIndex(b, Len(s)) THEN <<>>
    ELSE SubSeq(s, SliceIndex(a, Len(s)) + 1, SliceIndex(b, Len(s)))
\* s[i] of an index within the str
PyAt(s, i) == s[(IF i < 0 THEN i + Len(s) ELSE i) + 1]
\* s[a:]
PyFrom(s, a) == PySlice(s, a, Len(s))
\* s.strip(), blanks being the only white space of the modelled texts
Strip(s) ==
    IF \A i \in 1..Len(s) : s[i] = " " THEN <<>>
    ELSE SubSeq(s, CHOOSE i \in 1..Len(s) : s[i] # " " /\ \A j \in 1..(i - 1) : s[j] = " ",
                   CHOOSE i \in 1..Len(s) : s[i] # " " /\ \A j \in (i + 1)..Len(s) : s[j] = " ")
\* s.index(c, from), or -1 where Python raises ValueError
IndexOf(s, c, from) ==
    IF \E i \in from..(Len(s) - 1) : s[i + 1] = c
    THEN CHOOSE i \in from..(Len(s) - 1) : s[i + 1] = c /\ \A j \in from..(i - 1) : s[j + 1] # c
    ELSE 0 - 1
\* the key of the dict a one-character name is looked up under
KeyOf(name) == IF Len(name) = 1 THEN name[1] ELSE ""

\* json.dumps(value) of a bool, an int, a str without quote and backslash,
\* or a dict
JsonDumps(value) ==
    CASE TypeOf(value) = "bool" ->
           IF ValueOf(value) THEN <<"t", "r", "u", "e">> ELSE <<"f", "a", "l", "s", "e">>
      [] TypeOf(value) = "int" -> Str(ValueOf(value))
      [] TypeOf(value) = "str" -> <<"\"">> \o ValueOf(value) \o <<"\"">>
      [] TypeOf(value) = "dict" ->
           <<"{", "\"", CHOOSE k \in DOMAIN ValueOf(value) : TRUE, "\"", ":", " ">>
             \o Str(ValueOf(ValueOf(value)[CHOOSE k \in DOMAIN ValueOf(value) : TRUE])) \o <<"}">>
      [] OTHER -> <<"n", "u", "l", "l">>
\* str(value), of a dict as well
PyStrText(value) ==
    IF TypeOf(value) = "dict"
    THEN <<"{", "'", CHOOSE k \in DOMAIN ValueOf(value) : TRUE, "'", ":", " ">>
           \o Str(ValueOf(ValueOf(value)[CHOOSE k \in DOMAIN ValueOf(value) : TRUE])) \o <<"}">>
    ELSE PyStrOf(value)

RECURSIVE Find(_, _, _)
Find(delimiter, content, index) ==
    IF index >= Len(content) THEN Err("ValueError")
    ELSE IF content[index + 1] = "\\" THEN Find(delimiter, content, index + 2)
    ELSE IF content[index + 1] = delimiter THEN Ok(index)
    ELSE Find(delimiter, content, index + 1)

RECURSIVE FindNested(_, _, _)
FindNested(delimiter, content, index) ==
    IF index >= Len(content) THEN Ok(index)
    ELSE IF content[index + 1] = delimiter THEN Ok(index)
    ELSE IF content[index + 1] = "["
         THEN Bind(FindNested("]", content, index + 1),
                   LAMBDA end : FindNested(delimiter, content, end + 1))
    ELSE IF content[index + 1] = "("
         THEN Bind(FindNested(")", content, index + 1),
                   LAMBDA end : FindNested(delimiter, content, end + 1))
    ELSE IF content[index + 1] = "\""
         THEN Bind(Find("\"", content, index + 1),
                   LAMBDA end : FindNested(delimiter, content, end + 1))
    ELSE IF content[index + 1] = "'"
         THEN Bind(Find("'", content, index + 1),
                   LAMBDA end : FindNested(delimiter, content, end + 1))
    ELSE FindNested(delimiter, content, index + 1)

\* line 150; content[end + 1] is read only when content[start - 1] is a quote
IsSubstitution(content, start, end) ==
    IF PyAt(content, start - 1) # "\"" THEN Ok(TRUE)
    ELSE IF end + 1 >= Len(content) THEN Err("IndexError")
    ELSE Ok(content[end + 2] # "\"")

\* the result of a call that raised KeyError inside the try of line 525
VariableUndefined(r) == IF r.err = "KeyError" THEN Err("variable_undefined") ELSE r

RECURSIVE ParseArmExpression(_, _, _)
RECURSIVE ParseArmConcatFrom(_, _, _, _, _)
\* lines 519-535; the variable is a str holding an expression, or a value
ParseArmVariable(name, template_obj, parameters) ==
    IF ~Has(template_obj, "variables") THEN Err("variable_undefined")
    ELSE IF ~Has(template_obj["variables"], KeyOf(name)) THEN Err("variable_undefined")
    ELSE IF TypeOf(template_obj["variables"][KeyOf(name)]) # "str"
         THEN Ok(template_obj["variables"][KeyOf(name)])
    ELSE VariableUndefined(
             ParseArmExpression(ValueOf(template_obj["variables"][KeyOf(name)]),
                                template_obj, parameters))

\* lines 546-550: content += the value of the argument that ends at the next
\* top-level comma; str + a value that is not a str raises TypeError
ParseArmConcatFrom(expression, template_obj, parameters, index, content) ==
    IF index >= Len(expression) THEN Ok(PyStr(content))
    ELSE Bind(FindNested(",", expression, index), LAMBDA end :
         Bind(ParseArmExpression(Strip(PySlice(expression, index, end)),
                                 template_obj, parameters), LAMBDA argument :
              IF TypeOf(argument) # "str" THEN Err("TypeError")
              ELSE ParseArmConcatFrom(expression, template_obj, parameters, end + 1,
                                      content \o ValueOf(argument))))

ParseArmConcat(expression, template_obj, parameters) ==
    ParseArmConcatFrom(expression, template_obj, parameters, 0, <<>>)

\* lines 554-584, of a str; expression[0] of the empty str raises IndexError
ParseArmExpression(expression, template_obj, parameters) ==
    IF expression = <<>> THEN Err("IndexError")
    ELSE IF expression[1] = "[" /\ expression[Len(expression)] = "]"
         THEN ParseArmExpression(PySlice(expression, 1, 0 - 1), template_obj, parameters)
    ELSE IF expression[1] = "(" /\ expression[Len(expression)] = ")"
         THEN ParseArmExpression(PySlice(expression, 1, 0 - 1), template_obj, parameters)
    ELSE IF expression[1] = "'" /\ expression[Len(expression)] = "'"
         THEN Ok(PyStr(PySlice(expression, 1, 0 - 1)))
    ELSE IF StartsWith(expression, <<"p", "a", "r", "a", "m", "e", "t", "e", "r", "s">>)
         THEN ParseArmParameter(KeyOf(PySlice(expression, 12, 0 - 2)), template_obj, parameters)
    ELSE IF StartsWith(expression, <<"v", "a", "r", "i", "a", "b", "l", "e", "s">>)
         THEN ParseArmVariable(PySlice(expression, 11, 0 - 2), template_obj, parameters)
    ELSE IF StartsWith(expression, <<"c", "o", "n", "c", "a", "t">>)
         THEN ParseArmConcat(PySlice(expression, 7, 0 - 1), template_obj, parameters)
    ELSE IF StartsWith(expression, <<"r", "e", "f", "e", "r", "e", "n", "c", "e">>)
         THEN Err("NotImplementedError")
    ELSE Ok(PyStr(expression))

\* lines 614-632: what is appended for the expression at start..end, and the
\* index the scan goes on from
Splice(string_content, current_index, start, end, parsed, substitution) ==
    IF substitution \/ TypeOf(parsed) \notin {"bool", "int", "dict"}
    THEN [text |-> PySlice(string_content, current_index, start) \o PyStrText(parsed),
          next |-> end + 1]
    ELSE [text |-> PySlice(string_content, current_index, start - 1) \o JsonDumps(parsed),
          next |-> end + 2]

RECURSIVE ParseTemplateStringFrom(_, _, _, _, _)
\* the loop of lines 596-632 from current_index on, then line 633
ParseTemplateStringFrom(string_content, template_obj, parameters, current_index, updated_content) ==
    IF current_index >= Len(string_content)
         \/ IndexOf(string_content, "[", current_index) < 0
    THEN Ok(updated_content \o PyFrom(string_content, current_index))
    ELSE IF PySlice(string_content, IndexOf(string_content, "[", current_index) + 1,
                    IndexOf(string_content, "[", current_index) + 2) = <<"[">>
         THEN ParseTemplateStringFrom(
                  string_content, template_obj, parameters,
                  IndexOf(string_content, "[", current_index) + 2,
                  updated_content
                    \o PySlice(string_content, current_index,
                               IndexOf(string_content, "[", current_index)) \o <<"[">>)
    ELSE Bind(FindNested("]", string_content, IndexOf(string_content, "[", current_index) + 1),
              LAMBDA end :
         IF end >= Len(string_content)
         THEN Ok(updated_content \o PyFrom(string_content, current_index))
         ELSE Bind(ParseArmExpression(
                       PySlice(string_content, IndexOf(string_content, "[", current_index) + 1, end),
                       template_obj, parameters), LAMBDA parsed :
              Bind(IsSubstitution(string_content, IndexOf(string_content, "[", current_index), end),
                   LAMBDA substitution :
              Bind(Ok(Splice(string_content, current_index,
                             IndexOf(string_content, "[", current_index), end, parsed,
                             substitution)), LAMBDA spliced :
                   ParseTemplateStringFrom(string_content, template_obj, parameters,
                                           spliced.next, updated_content \o spliced.text)))))

\* _parse_template_string on the text of a string, its quotes included
ParseTemplateStringText(string_content, template_obj, parameters) ==
    ParseTemplateStringFrom(string_content, template_obj, parameters, 0, <<>>)

(***************************************************************************)
(* State                                                                   *)
(***************************************************************************)
VARIABLES
    pc,              \* "start" before a single call under study, "submitted" when the
                     \* job is handed in, "expanded" when its template reference is
                     \* dealt with, "failed" when that raised, "done" after the last call
    parameter_sets,  \* argument of _parse_parameter_sets
    permutations,    \* its result
    working_dir,     \* the folder the job was loaded from
    fs,              \* the readable files: path -> content
    job_in,          \* the job as it was handed in
    job,             \* the job dict handed to the expansion operations (edited in place)
    template_check,  \* result of _validate_application_template on the file's template
    app_error,       \* what expand_application_template raised, "none" if it returned
    container_list,  \* what fileutils.get_container_list returns
    task_factory,    \* the factory expand_task_factory popped from the job
    task_objs,       \* result of expand_task_factory
    tokens,          \* the pieces the string under substitution is written from
    context,         \* the sweep values handed to the substitution
    swept,           \* result of _transform_sweep_str on the string
    transformed,     \* result of _replacement_transform on the string
    render_template,   \* template_obj of the rendering functions
    render_parameters, \* their parameters: the values the caller supplies
    pieces,          \* the pieces the text of the string under rendering is written from
    rendered,        \* result of _parse_template_string on that text
    evaluated,       \* result of _parse_arm_parameter for the parameter x
    template_json,   \* expand_template: the template file, loaded
    parameter_json,  \* the parameter file, loaded
    param_keys,      \* the dict _get_template_params builds
    prompted,        \* the answers typed at the prompts so far
    expanded,        \* result of expand_template
    pool,            \* argument of process_pool_package_references
    tasks_in,        \* the task list handed to process_task_package_references
    tasks,           \* the same list, as the call leaves it
    os_flavor,       \* the OS flavor handed in with the tasks
    pool_cmd,        \* result of process_pool_package_references
    task_cmd,        \* result of process_task_package_references
    packages,        \* the list it handed to _get_installation_cmdline
    environ,    \* the environment: FILE_EGRESS_OVERRIDE_URL, <<>> when unset
    setup,           \* result of process_job_for_output_files
    get_pool         \* result of should_get_pool

vars == <<pc, parameter_sets, permutations, working_dir, fs, job_in, job, template_check,
          app_error, container_list, task_factory, task_objs, tokens, context, swept,
          transformed, render_template, render_parameters, pieces, rendered, evaluated,
          template_json, parameter_json, param_keys, prompted, expanded,
          pool, tasks_in, tasks, os_flavor, pool_cmd, task_cmd, packages,
          environ, setup, get_pool>>
setVars == <<parameter_sets, permutations>>
factoryVars == <<job, container_list, task_factory, task_objs>>
appVars == <<working_dir, fs, job_in, template_check, app_error>>
substVars == <<tokens, context, swept, transformed>>
renderVars == <<render_template, render_parameters, pieces, rendered, evaluated>>
templateVars == <<template_json, parameter_json, param_keys, prompted, expanded>>
packageVars == <<pool, tasks_in, tasks, os_flavor, pool_cmd, task_cmd, packages>>
outputVars == <<environ, setup, get_pool>>

NotCalled == [err |-> "not_called", val |-> <<>>]
SetIdle == parameter_sets = <<>> /\ permutations = NotCalled
FactoryIdle ==
    job = <<>> /\ container_list = <<>> /\ task_factory = <<>> /\ task_objs = NotCalled
AppIdle ==
    /\ working_dir = <<>> /\ fs = <<>> /\ job_in = <<>>
    /\ template_check = NotCalled /\ app_error = "not_called"
SubstIdle == tokens = <<>> /\ context = <<>> /\ swept = NotCalled /\ transformed = NotCalled
RenderIdle ==
    /\ render_template = <<>> /\ render_parameters = <<>> /\ pieces = <<>>
    /\ rendered = NotCalled /\ evaluated = NotCalled
TemplateIdle ==
    /\ template_json = <<>> /\ parameter_json = <<>> /\ param_keys = <<>>
    /\ prompted = <<>> /\ expanded = NotCalled
PackageIdle ==
    /\ pool = <<>> /\ tasks_in = <<>> /\ tasks = <<>> /\ os_flavor = ""
    /\ pool_cmd = NotCalled /\ task_cmd = NotCalled /\ packages = <<>>
OutputIdle == environ = <<>> /\ setup = NotCalled /\ get_pool = NotCalled

\* All sequences over S of length lo..hi
SeqsOf(S, lo, hi) == UNION {[1..n -> S] : n \in lo..hi}

(***************************************************************************)
(* _parse_parameter_sets on one parameter set                              *)
(***************************************************************************)
SetVals == (0 - MaxAbs)..MaxAbs
WideSets ==
    {[start |-> s, end |-> e] : s \in SetVals, e \in SetVals}
    \cup {[start |-> s, end |-> e, step |-> t] : s \in SetVals, e \in SetVals, t \in SetVals}

InitSets ==
    /\ pc = "start"
    /\ parameter_sets \in {<<ps>> : ps \in WideSets}
    /\ permutations = NotCalled
    /\ FactoryIdle /\ AppIdle /\ SubstIdle /\ RenderIdle /\ TemplateIdle /\ PackageIdle /\ OutputIdle

ParseParameterSetsCall ==
    /\ pc = "start"
    /\ permutations' = ParseParameterSets(parameter_sets)
    /\ pc' = "done"
    /\ UNCHANGED <<parameter_sets, factoryVars, appVars, substVars,
                   renderVars, templateVars, packageVars, outputVars>>

NextSets == ParseParameterSetsCall
SpecSets == InitSets /\ [][NextSets]_vars

(***************************************************************************)
(* expand_task_factory                                                     *)
(***************************************************************************)
SweepSets ==
    {[start |-> s, end |-> e] : s \in {0, 1}, e \in {0, 1, 3}}
    \cup {[start |-> s, end |-> e, step |-> t] : s \in {0, 1}, e \in {0, 1, 3}, t \in {0 - 1, 0, 2}}

\* The sets that lists of two and more parameter sets are drawn from
ProductSets ==
    { [start |-> 0, end |-> 3], [start |-> 1, end |-> 3],
      [start |-> 0, end |-> 3, step |-> 2], [start |-> 1, end |-> 0, step |-> 0 - 1],
      [start |-> 0, end |-> 0, step |-> 0 - 1], [start |-> 0, end |-> 1, step |-> 0] }
SweepSetLists == SeqsOf(SweepSets, 0, 1) \cup SeqsOf(ProductSets, 2, MaxSets)

EchoCmd == <<"e", "c", "h", "o", " ", "{", "0", ":", "3", "}">>
PairCmd == <<"{", "0", "}", ",", "{", "1", "}">>
SweepRepeatTasks ==
    { [commandLine |-> EchoCmd],
      [commandLine |-> PairCmd, displayName |-> <<"t", "{", "{", "{", "0", "}", "}", "}">>,
       dependsOn |-> [taskIds |-> <<"x">>]],
      [commandLine |-> <<"{", "0", "}", ",", "{", "1", "}", ",", "{", "2", "}">>],
      [commandLine |-> <<"{", "0", "}", "{">>],
      [commandLine |-> <<"a">>, id |-> <<"7">>] }

MergeCmd == <<"c", "a", "t">>
\* a factory with each modelled form of mergeTask: absent, valid, without commandLine
WithMerge(f) ==
    { f,
      Update(f, [mergeTask |-> [commandLine |-> MergeCmd, displayName |-> <<"M">>,
                                dependsOn |-> [taskIds |-> <<"x">>]]]),
      Update(f, [mergeTask |-> [displayName |-> <<"M">>]]) }

SweepFactories ==
    UNION { WithMerge([type |-> "parametricSweep", parameterSets |-> ps, repeatTask |-> rt]) :
              ps \in SweepSetLists, rt \in SweepRepeatTasks }
    \cup { [type |-> "parametricSweep", repeatTask |-> [commandLine |-> EchoCmd]],
           [type |-> "parametricSweep", parameterSets |-> <<[start |-> 1, end |-> 3]>>] }

File1 == [url |-> <<"h", "/", "a">>, filePath |-> <<"d", "/", "a", ".", "t">>,
          fileName |-> <<"a", ".", "t">>, fileNameWithoutExtension |-> <<"a">>]
File2 == [url |-> <<"h", "/", "b">>, filePath |-> <<"b", "}">>,
          fileName |-> <<"b", "}">>, fileNameWithoutExtension |-> <<"{", "u", "r", "l", "}">>]
FileLists == SeqsOf({File1, File2}, 0, MaxFiles)

FileRepeatTasks ==
    { [commandLine |-> <<"g", "e", "t", " ", "{", "u", "r", "l", "}">>],
      [commandLine |-> <<"{", "f", "i", "l", "e", "N", "a", "m", "e", "}", "{", "{", "x", "}", "}">>],
      [commandLine |-> <<"{", "0", "}">>] }

FileFactories ==
    UNION { WithMerge([type |-> "taskPerFile", source |-> "fileGroup", repeatTask |-> rt]) :
              rt \in FileRepeatTasks }
    \cup { [type |-> "taskPerFile", repeatTask |-> [commandLine |-> <<"a">>]],
           [type |-> "taskPerFile", source |-> "fileGroup"] }

OtherFactories ==
    { [type |-> "taskCollection",
       tasks |-> << [id |-> <<"x">>, commandLine |-> <<"a">>, dependsOn |-> [taskIds |-> <<"y">>]],
                    [id |-> <<"y">>, commandLine |-> <<"b">>, displayName |-> <<>>] >>],
      [type |-> "taskCollection", tasks |-> << [commandLine |-> <<"a">>] >>],
      [type |-> "taskCollection"],
      [type |-> "unknown"],
      [tasks |-> <<>>] }

InitFactory ==
    /\ pc = "expanded"
    /\ \/ \E f \in SweepFactories \cup OtherFactories :
            job = [id |-> "job", taskFactory |-> f] /\ container_list = <<>>
       \/ \E f \in FileFactories :
            job = [id |-> "job", taskFactory |-> f] /\ container_list \in FileLists
       \/ job = [id |-> "job"] /\ container_list = <<>>
    /\ task_factory = <<>>
    /\ task_objs = NotCalled
    /\ AppIdle /\ SetIdle /\ SubstIdle /\ RenderIdle /\ TemplateIdle /\ PackageIdle /\ OutputIdle

ExpandTaskFactoryCall ==
    /\ pc = "expanded"
    /\ \E r \in {ExpandTaskFactory(job, container_list)} :
         /\ task_objs' = [err |-> r.err, val |-> r.val]
         /\ task_factory' = r.factory
         /\ job' = r.job
    /\ pc' = "done"
    /\ UNCHANGED <<container_list, appVars, setVars, substVars,
                   renderVars, templateVars, packageVars, outputVars>>

NextFactory == ExpandTaskFactoryCall
SpecFactory == InitFactory /\ [][NextFactory]_vars

(***************************************************************************)
(* _replacement_transform with the sweep substitution                      *)
(***************************************************************************)
\* A token is literal text, or a placeholder written {n} or {n:m}.
Lit(text) == [kind |-> "lit", text |-> text, n |-> <<>>, m |-> <<>>, colon |-> FALSE]
PlainChars == {"a", "0", ":", LEFT_BRACKET_REPLACE_CHAR, RIGHT_BRACKET_REPLACE_CHAR}
LitTokens ==
    {Lit(<<c>>) : c \in PlainChars \cup {"{", "}"}} \cup {Lit(<<"{", "{">>), Lit(<<"}", "}">>)}
    \cup {Lit(<<"{", "{", "{", "{">>), Lit(<<"}", "}", "}", "}">>)}
PlaceholderTokens ==
    {[kind |-> "ph", text |-> <<>>, n |-> n, m |-> <<>>, colon |-> FALSE] : n \in {<<"0">>, <<"0", "1">>}}
    \cup {[kind |-> "ph", text |-> <<>>, n |-> n, m |-> m, colon |-> TRUE] :
            n \in {<<"0">>, <<"0", "1">>}, m \in {<<"3">>, <<"0">>, <<"1", "0">>}}
TokenSet == LitTokens \cup PlaceholderTokens

\* The text of a token
TokenText(t) ==
    IF t.kind = "lit" THEN t.text
    ELSE <<"{">> \o t.n \o (IF t.colon THEN <<":">> \o t.m ELSE <<>>) \o <<"}">>
SourceStr(toks) == Flatten([i \in 1..Len(toks) |-> TokenText(toks[i])])

Contexts == { <<>>, <<7>>, <<12, 0 - 1>> }

InitSubst ==
    /\ pc = "start"
    /\ tokens \in SeqsOf(TokenSet, 0, MaxTok)
    /\ context \in Contexts
    /\ swept = NotCalled
    /\ transformed = NotCalled
    /\ SetIdle /\ FactoryIdle /\ AppIdle /\ RenderIdle /\ TemplateIdle /\ PackageIdle /\ OutputIdle

TransformSweepStrCall ==
    /\ swept = NotCalled
    /\ swept' = TransformSweepStr(SourceStr(tokens), context)
    /\ pc' = IF transformed = NotCalled THEN pc ELSE "done"
    /\ UNCHANGED <<tokens, context, transformed, setVars, factoryVars, appVars,
                   renderVars, templateVars, packageVars, outputVars>>

ReplacementTransformCall ==
    /\ transformed = NotCalled
    /\ transformed' = ReplacementTransform("sweep", [commandLine |-> SourceStr(tokens)],
                                           "commandLine", context)
    /\ pc' = IF swept = NotCalled THEN pc ELSE "done"
    /\ UNCHANGED <<tokens, context, swept, setVars, factoryVars, appVars,
                   renderVars, templateVars, packageVars, outputVars>>

NextSubst == TransformSweepStrCall \/ ReplacementTransformCall
SpecSubst == InitSubst /\ [][NextSubst]_vars

(***************************************************************************)
(* expand_application_template, then expand_task_factory, on a submitted   *)
(* job; _validate_application_template on the template of the file         *)
(***************************************************************************)
WorkingDir == <<"w">>
TemplatePath == <<"t">>
MissingPath == <<"u">>
TemplateFile == WorkingDir \o <<"/">> \o TemplatePath

TemplateFactory ==
    [type |-> "parametricSweep", parameterSets |-> <<[start |-> 1, end |-> 2]>>,
     repeatTask |-> [commandLine |-> EchoCmd]]

\* a file that is not JSON, and a file holding the JSON object `template`
MalformedFile == (TemplateFile :> [json |-> FALSE, obj |-> <<>>])
JsonFile(template) == (TemplateFile :> [json |-> TRUE, obj |-> template])

\* applicationTemplateInfo: null, without filePath, with an empty one, naming
\* the template file (with and without parameters), naming no file
TemplateInfos(parameters) ==
    { PyNone,
      ("parameters" :> parameters),
      [filePath |-> <<>>],
      [filePath |-> TemplatePath],
      [filePath |-> TemplatePath, parameters |-> parameters],
      [filePath |-> MissingPath] }

JobMetadata(name) == [name |-> name, value |-> PyStr(<<"1">>)]
JobValue(key) ==
    IF key = "taskFactory" THEN TemplateFactory
    ELSE IF key = "metadata" THEN <<JobMetadata(<<"j">>)>>
    ELSE PyStr(<<"x">>)
JobWith(keys) == Update([id |-> "job"], [k \in keys |-> JobValue(k)])

JobKeySets ==
    {{}} \cup {{k} : k \in PROPS_RESERVED_FOR_TEMPLATES
                          \cup {"parameters", "templateMetadata", "metadata", "priority"}}
         \cup {{"parameters", "templateMetadata"}, {"taskFactory", "parameters"}}

KeyJobs ==
    {JobWith(ks) : ks \in JobKeySets}
    \cup {Update(JobWith(ks), [applicationTemplateInfo |-> info]) :
            ks \in JobKeySets, info \in TemplateInfos(<<>>)}

TemplateMetadata(name, value) == [name |-> name, value |-> value]
TemplateValue(key) ==
    IF key = "taskFactory" THEN TemplateFactory
    ELSE IF key = "templateMetadata" THEN [description |-> PyStr(<<"d">>)]
    ELSE IF key = "metadata" THEN <<TemplateMetadata(<<"m">>, TemplateLiteral(<<"v">>))>>
    ELSE TemplateLiteral(<<"x">>)
TemplateWith(keys) == [k \in keys |-> TemplateValue(k)]

TemplateKeySets ==
    {{}} \cup {{k} : k \in PROPS_RESERVED_FOR_TEMPLATES \cup PROPS_RESERVED_FOR_JOBS
                          \cup {"templateMetadata", "metadata", "foo"}}
         \cup {{"taskFactory", "templateMetadata", "metadata"}, {"onTaskFailure", "priority"}}

\* the parameters section of a template: empty, one typed parameter, one
\* without a type, one of an unsupported type
KeyDefinitions ==
    { <<>>,
      [n |-> [type |-> "int", defaultValue |-> PyInt(5)]],
      [n |-> [defaultValue |-> PyInt(5)]],
      [n |-> [type |-> "float", defaultValue |-> PyInt(5)]],
      [n |-> [type |-> "int", defaultValue |-> PyInt(5)], s |-> [type |-> "object"]] }

KeyTemplates ==
    {TemplateWith(ks) : ks \in TemplateKeySets}
    \cup {Update(TemplateWith(ks), [parameters |-> d]) :
            ks \in TemplateKeySets, d \in KeyDefinitions}

KeyFiles == {MalformedFile} \cup {JsonFile(t) : t \in KeyTemplates}

\* the declaration of parameter n, and the values a job supplies for it
Defaults == {PyInt(5), PyInt(0), PyStr(<<"x">>), PyBool(TRUE)}
Declarations ==
    {[type |-> ty] : ty \in SUPPORTED_TYPES}
    \cup {[type |-> ty, defaultValue |-> d] : ty \in SUPPORTED_TYPES, d \in Defaults}
    \cup {[type |-> "int", minValue |-> 6, maxValue |-> 8],
          [type |-> "string", minLength |-> 2], [type |-> "string", maxLength |-> 0]}
SuppliedValues ==
    {PyInt(7), PyInt(0), PyInt(0 - 1), PyStr(<<"7">>), PyStr(<<"0", "7">>), PyStr(<<"x">>),
     PyStr(<<"T", "r", "u", "e">>), PyStr(<<>>), PyBool(FALSE),
     PyDict([value |-> PyInt(7)])}
\* a str that closes the string it is put in and goes on with a property
\* of its own: x", "priority": "e
Smuggling(key) == PyStr(<<"x", "\"", ", ", "\"", key, "\"", ": ", "\"", "e">>)
SmugglingValues ==
    {Smuggling(key) : key \in {"priority", "displayName", "usesTaskDependencies"}}
SuppliedParameters ==
    {<<>>, [z |-> PyInt(1)]} \cup {[n |-> v] : v \in SuppliedValues \cup SmugglingValues}

ParameterJobs ==
    {[id |-> "job", applicationTemplateInfo |-> [filePath |-> TemplatePath, parameters |-> ps]] :
       ps \in SuppliedParameters}
    \cup {[id |-> "job", priority |-> PyStr(<<"x">>), displayName |-> PyStr(<<"x">>),
           applicationTemplateInfo |-> [filePath |-> TemplatePath, parameters |-> [n |-> v]]] :
            v \in SmugglingValues}
TemplateStrings ==
    {TemplateLiteral(<<"x">>), ParameterExpression("n"), ParameterExpression("z")}
ParameterTemplates ==
    {[parameters |-> [n |-> d], onAllTasksComplete |-> str] :
       d \in Declarations, str \in TemplateStrings}
    \cup {[parameters |-> [n |-> d],
           metadata |-> <<TemplateMetadata(<<"m">>, ParameterExpression("n"))>>] :
            d \in Declarations}
    \cup {[onAllTasksComplete |-> ParameterExpression("n")]}
ParameterFiles == {JsonFile(t) : t \in ParameterTemplates}

\* metadata lists of the job and of the template
MetadataNames == {<<"a">>, <<"b">>, AZ_BATCH \o <<":", "x">>}
MetadataJobs ==
    {[id |-> "job", applicationTemplateInfo |-> [filePath |-> TemplatePath]]}
    \cup {[id |-> "job", applicationTemplateInfo |-> [filePath |-> TemplatePath],
           metadata |-> [i \in DOMAIN names |-> JobMetadata(names[i])]] :
            names \in SeqsOf(MetadataNames, 0, MaxMeta)}
MetadataTemplates ==
    {[taskFactory |-> TemplateFactory]}
    \cup {[taskFactory |-> TemplateFactory,
           metadata |-> [i \in DOMAIN names |->
                            TemplateMetadata(names[i], TemplateLiteral(<<"v">>))]] :
            names \in SeqsOf(MetadataNames, 0, MaxMeta)}
MetadataFiles == {JsonFile(t) : t \in MetadataTemplates}

InitApp ==
    /\ pc = "submitted"
    /\ working_dir = WorkingDir
    /\ \/ job \in KeyJobs /\ fs \in KeyFiles
       \/ job \in ParameterJobs /\ fs \in ParameterFiles
       \/ job \in MetadataJobs /\ fs \in MetadataFiles
    /\ job_in = job
    /\ template_check = NotCalled
    /\ app_error = "not_called"
    /\ container_list = <<>> /\ task_factory = <<>> /\ task_objs = NotCalled
    /\ SetIdle /\ SubstIdle /\ RenderIdle /\ TemplateIdle /\ PackageIdle /\ OutputIdle

\* _validate_application_template on the template the file holds
ValidateApplicationTemplateCall ==
    /\ pc = "submitted"
    /\ template_check.err = "not_called"
    /\ \E path \in DOMAIN fs :
         /\ fs[path].json
         /\ template_check' = ValidateApplicationTemplate(fs[path].obj)
    /\ UNCHANGED <<pc, working_dir, fs, job_in, app_error, factoryVars, setVars, substVars,
                   renderVars, templateVars, packageVars, outputVars>>

\* expand_application_template(job, working_dir): the job is edited in place
\* when the call returns, and is as it was when the call raises
ExpandApplicationTemplateCall ==
    /\ pc = "submitted"
    /\ \E r \in {ExpandApplicationTemplate(job, working_dir, fs)} :
         /\ app_error' = r.err
         /\ job' = IF IsOk(r) THEN r.val ELSE RaisedJob(job, r.err)
         /\ pc' = IF IsOk(r) THEN "expanded" ELSE "failed"
    /\ UNCHANGED <<working_dir, fs, job_in, template_check, container_list, task_factory,
                   task_objs, setVars, substVars, renderVars, templateVars, packageVars, outputVars>>

NextApp ==
    \/ ValidateApplicationTemplateCall
    \/ ExpandApplicationTemplateCall
    \/ ExpandTaskFactoryCall
SpecApp == InitApp /\ [][NextApp]_vars

(***************************************************************************)
(* _parse_template_string on the text of one string of a template, and     *)
(* _parse_arm_parameter on the parameter x                                 *)
(***************************************************************************)
Quote == <<"\"">>
\* A piece of a string: literal text, or an expression in brackets
LitPiece(text) == [kind |-> "lit", text |-> text, name |-> "", args |-> <<>>]
ParameterPiece(name) ==
    [kind |-> "parameters", text |-> <<"[", "p", "a", "r", "a", "m", "e", "t", "e", "r", "s", "(", "'">> \o <<name>> \o <<"'", ")", "]">>,
     name |-> name, args |-> <<>>]
VariablePiece(name) ==
    [kind |-> "variables", text |-> <<"[", "v", "a", "r", "i", "a", "b", "l", "e", "s", "(", "'">> \o <<name>> \o <<"'", ")", "]">>,
     name |-> name, args |-> <<>>]

\* An argument of concat: a quoted literal (bare or in parentheses), a
\* parameter, a variable, a nested concat of two literals
QuotedArg(lit) == [kind |-> "quoted", text |-> <<"'">> \o lit \o <<"'">>, name |-> "", lit |-> lit]
ParenthesisArg(lit) ==
    [kind |-> "quoted", text |-> <<"(", "'">> \o lit \o <<"'", ")">>, name |-> "", lit |-> lit]
ParameterArg(name) ==
    [kind |-> "parameters", text |-> <<"p", "a", "r", "a", "m", "e", "t", "e", "r", "s", "(", "'">> \o <<name>> \o <<"'", ")">>, name |-> name,
     lit |-> <<>>]
VariableArg(name) ==
    [kind |-> "variables", text |-> <<"v", "a", "r", "i", "a", "b", "l", "e", "s", "(", "'">> \o <<name>> \o <<"'", ")">>, name |-> name,
     lit |-> <<>>]
NestedArg == [kind |-> "concat", text |-> <<"c", "o", "n", "c", "a", "t", "(", "'", "p", "'", ",", "'", "q", "'", ")">>, name |-> "", lit |-> <<"p", "q">>]
ConcatArgs ==
    { QuotedArg(<<"a">>), QuotedArg(<<"x", ",", "y">>), ParenthesisArg(<<"c", ",", "d">>),
      ParameterArg("s"), ParameterArg("n"), ParameterArg("b"),
      VariableArg("v"), VariableArg("w"), NestedArg }

RECURSIVE JoinArgs(_)
\* the texts of the arguments, ", " between them
JoinArgs(args) ==
    IF args = <<>> THEN <<>>
    ELSE IF Len(args) = 1 THEN args[1].text
    ELSE args[1].text \o <<",", " ">> \o JoinArgs(Tail(args))
ConcatPiece(args) ==
    [kind |-> "concat", text |-> <<"[", "c", "o", "n", "c", "a", "t", "(">> \o JoinArgs(args) \o <<")", "]">>,
     name |-> "", args |-> args]

\* literal text: a letter, an escaped quote, an escaped bracket
LitPieces == {LitPiece(<<"a">>), LitPiece(<<"\\", "\"">>), LitPiece(<<"[", "[">>)}
SimplePieces ==
    LitPieces \cup {ParameterPiece(name) : name \in {"n", "b", "s", "d"}}
              \cup {VariablePiece(name) : name \in {"v", "w"}}
ConcatPieces == {ConcatPiece(args) : args \in SeqsOf(ConcatArgs, 0, MaxArgs)}
\* the strings: up to MaxPieces simple pieces, or a concat alone or after a letter
PieceLists ==
    SeqsOf(SimplePieces, 0, MaxPieces)
    \cup {<<c>> : c \in ConcatPieces} \cup {<<LitPiece(<<"a">>), c>> : c \in ConcatPieces}

\* text with a '[' that nothing closes, and an expression in brackets that
\* is none of the forms of an expression: a word, a blank, nothing, the
\* bare word parameters
OpenPiece(text) == [kind |-> "open", text |-> text, name |-> "", args |-> <<>>]
BarePiece(expression) ==
    [kind |-> "bare", text |-> <<"[">> \o expression \o <<"]">>, name |-> "", args |-> <<>>]
OpenPieces == {OpenPiece(<<"[">>), OpenPiece(<<"[", "b">>), OpenPiece(<<"[", "(", "b", ")">>)}
BarePieces ==
    {BarePiece(<<"x", "y", "z">>), BarePiece(<<"x">>), BarePiece(<<" ">>), BarePiece(<<>>),
     BarePiece(<<"p", "a", "r", "a", "m", "e", "t", "e", "r", "s">>)}
\* the strings with such a piece: alone, after a letter, before a letter, and
\* a bare expression before an open bracket
OddPieceLists ==
    UNION {{<<p>>, <<LitPiece(<<"a">>), p>>, <<p, LitPiece(<<"a">>)>>} : p \in OpenPieces \cup BarePieces}
    \cup {<<p, q>> : p \in BarePieces, q \in OpenPieces}

\* the text of the string, its quotes included
StringContent(ps) == Quote \o Flatten([i \in 1..Len(ps) |-> ps[i].text]) \o Quote

\* the template: typed parameters, a parameter x declared as given, and two
\* variables, a plain one and one that is an expression
VariableW == <<"[", "c", "o", "n", "c", "a", "t", "(", "'", "p", "'", ",", " ", "p", "a", "r", "a", "m", "e", "t", "e", "r", "s", "(", "'", "s", "'", ")", ")", "]">>
RenderTemplate(x) ==
    [parameters |-> [n |-> [type |-> "int"], b |-> [type |-> "bool"], s |-> [type |-> "string"],
                     d |-> [type |-> "string"], x |-> x],
     variables |-> [v |-> PyStr(<<"l", "i", "t">>), w |-> PyStr(VariableW)]]
\* the values the caller supplies: valid for the declared types
RenderParameters(n, b) ==
    [n |-> PyInt(n), b |-> PyBool(b), s |-> PyStr(<<"h", "i">>),
     d |-> PyDict([value |-> PyDict([k |-> PyInt(1)])])]
RenderInts == {7, 0, 0 - 3}

\* values of parameter x that are valid for its declared type
XValues(type) ==
    CASE type = "int" -> {PyInt(7), PyInt(0), PyStr(<<"7">>)}
      [] type = "bool" -> {PyBool(TRUE), PyBool(FALSE), PyStr(<<"t", "r", "u", "e">>)}
      [] OTHER -> {PyStr(<<"h", "i">>)}
XDeclarations(type) ==
    {[type |-> type]} \cup {[type |-> type, defaultValue |-> v] : v \in XValues(type)}
\* x is not supplied, supplied raw, supplied as {"value": v}
XSupplied(type) ==
    {<<>>} \cup {[x |-> v] : v \in XValues(type)}
           \cup {[x |-> PyDict([value |-> v])] : v \in XValues(type)}

InitRender ==
    /\ pc = "start"
    /\ \/ /\ pieces \in PieceLists
          /\ render_template = RenderTemplate([type |-> "int", defaultValue |-> PyInt(5)])
          /\ \E n \in RenderInts, b \in BOOLEAN : render_parameters = RenderParameters(n, b)
       \/ /\ pieces \in OddPieceLists
          /\ render_template = RenderTemplate([type |-> "int", defaultValue |-> PyInt(5)])
          /\ render_parameters = RenderParameters(7, TRUE)
       \/ /\ pieces = <<[kind |-> "parameters", text |-> <<"[", "p", "a", "r", "a", "m", "e", "t", "e", "r", "s", "(", "'", "x", "'", ")", "]">>, name |-> "x", args |-> <<>>]>>
          /\ \E type \in SUPPORTED_TYPES :
               /\ \E x \in XDeclarations(type) : render_template = RenderTemplate(x)
               /\ \E supplied \in XSupplied(type) :
                    render_parameters = Update(RenderParameters(7, TRUE), supplied)
    /\ rendered = NotCalled
    /\ evaluated = NotCalled
    /\ SetIdle /\ FactoryIdle /\ AppIdle /\ SubstIdle /\ TemplateIdle /\ PackageIdle /\ OutputIdle

\* _parse_template_string(string_content, template_obj, parameters)
ParseTemplateStringCall ==
    /\ rendered = NotCalled
    /\ rendered' = ParseTemplateStringText(StringContent(pieces), render_template,
                                           render_parameters)
    /\ pc' = IF evaluated = NotCalled THEN pc ELSE "done"
    /\ UNCHANGED <<render_template, render_parameters, pieces, evaluated, setVars, factoryVars,
                   appVars, substVars, templateVars, packageVars, outputVars>>

\* _parse_arm_parameter('x', template_obj, parameters)
ParseArmParameterCall ==
    /\ evaluated = NotCalled
    /\ evaluated' = ParseArmParameter("x", render_template, render_parameters)
    /\ pc' = IF rendered = NotCalled THEN pc ELSE "done"
    /\ UNCHANGED <<render_template, render_parameters, pieces, rendered, setVars, factoryVars,
                   appVars, substVars, templateVars, packageVars, outputVars>>

NextRender == ParseTemplateStringCall \/ ParseArmParameterCall
SpecRender == InitRender /\ [][NextRender]_vars

(***************************************************************************)
(* expand_template: the values of the parameters are taken from the        *)
(* parameter file, else from defaultValue, else asked for at the prompt,   *)
(* and the template is rendered with them                                  *)
(***************************************************************************)
MaxPrompts == 2

\* Mutant of ValidateParameter: a value that is not true is no value
ValidateParameterTruthy(name, content, value) ==
    LET validated == CASE content["type"] = "int" -> ValidateInt(value, content)
                       [] content["type"] = "bool" -> ValidateBool(value)
                       [] content["type"] = "string" -> ValidateString(value, content)
                       [] OTHER -> Ok(value)
    IN  IF ~IsOk(validated) THEN PyNone
        ELSE IF Has(content, "allowedValues") /\ ~InSeq(validated.val, content["allowedValues"])
             THEN PyNone
        ELSE IF validated.val \in {PyInt(0), PyBool(FALSE)} THEN PyNone
        ELSE validated.val

\* lines 421-449: the value as a value of the type, None when it is not one
\* or is not among allowedValues
ValidateParameter(name, content, value) ==
    LET validated == CASE content["type"] = "int" -> ValidateInt(value, content)
                       [] content["type"] = "bool" -> ValidateBool(value)
                       [] content["type"] = "string" -> ValidateString(value, content)
                       [] OTHER -> Ok(value)
    IN  IF ~IsOk(validated) THEN PyNone
        ELSE IF Has(content, "allowedValues") /\ ~InSeq(validated.val, content["allowedValues"])
             THEN PyNone
        ELSE validated.val

\* lines 462-469: the value of the file, taken out of {"value": v}, else the
\* default, else None
SelectedValue(param, values, param_values) ==
    IF ~Has(param_values, param) THEN GetOr(values, "defaultValue", PyNone)
    ELSE IF TypeOf(param_values[param]) = "dict"
         THEN GetOr(ValueOf(param_values[param]), "value", PyNone)
    ELSE param_values[param]

\* the parameters of the template, in the order of the file
DeclaredParameters == Keys(GetOr(template_json, "parameters", <<>>))
\* the parameter the loop of line 459 has not reached yet
UnreachedParameters == SelectSeq(DeclaredParameters, LAMBDA k : ~Has(param_keys, k))
\* the parameter the loop of line 470 is asking for
AwaitedParameters == SelectSeq(DeclaredParameters, LAMBDA k : Has(param_keys, k) /\ param_keys[k] = PyNone)

\* the definitions of the int parameter n and of the string parameter s
Constraints(allowed) == {<<>>, [allowedValues |-> allowed]}
DefaultValues(values) == {<<>>} \cup {[defaultValue |-> v] : v \in values}
NDefinitions ==
    {Update(Update([type |-> "int"], c), d) :
        c \in Constraints(<<PyInt(7), PyInt(8)>>), d \in DefaultValues({PyInt(7), PyInt(9)})}
SDefinitions ==
    {Update(Update([type |-> "string"], c), d) :
        c \in Constraints(<<PyStr(<<"a">>), PyStr(<<"b">>)>>),
        d \in DefaultValues({PyStr(<<"a">>), PyStr(<<"c">>)})}
    \cup {[defaultValue |-> PyStr(<<"a">>)]}
\* the templates: a job whose id and priority are parameters, and a job
\* without parameters
TemplateJsonFiles ==
    {[parameters |-> [n |-> n, s |-> s], id |-> ParameterExpression("s"),
      priority |-> ParameterExpression("n")] : n \in NDefinitions, s \in SDefinitions}
    \cup {[id |-> TemplateLiteral(<<"j">>)]}
\* the parameter files: no file, raw values, values in {"value": v}
ParameterJsonFiles ==
    {Update(n, s) :
        n \in {<<>>, [n |-> PyInt(7)], [n |-> PyInt(9)], [n |-> PyDict([value |-> PyInt(9)])]},
        s \in {<<>>, [s |-> PyStr(<<"a">>)], [s |-> PyStr(<<"c">>)],
               [s |-> PyDict([value |-> PyStr(<<"c">>)])]}}
\* what is typed at the prompt
PromptAnswers == {<<"0">>, <<"7">>, <<"9">>, <<"a">>, <<"c">>, <<>>}

InitTemplate ==
    /\ pc = "start"
    /\ template_json \in TemplateJsonFiles
    /\ parameter_json \in ParameterJsonFiles
    /\ param_keys = <<>>
    /\ prompted = <<>>
    /\ expanded = NotCalled
    /\ SetIdle /\ FactoryIdle /\ AppIdle /\ SubstIdle /\ RenderIdle /\ PackageIdle /\ OutputIdle

\* lines 1028-1037 and 458: the files are loaded, no value is chosen yet
ExpandTemplateCall ==
    /\ pc = "start"
    /\ template_json # <<>>
    /\ pc' = "params"
    /\ param_keys' = <<>>
    /\ UNCHANGED <<template_json, parameter_json, prompted, expanded, setVars, factoryVars,
                   appVars, substVars, renderVars, packageVars, outputVars>>

\* lines 459-469: the next parameter gets the value of the file or the default
SelectParameterValue ==
    /\ pc = "params"
    /\ AwaitedParameters = <<>>
    /\ UnreachedParameters # <<>>
    /\ \E param \in {Head(UnreachedParameters)} :
         IF ~Has(template_json["parameters"][param], "type")
         THEN /\ expanded' = Err("parameter_without_type")
              /\ pc' = "done"
              /\ UNCHANGED param_keys
         ELSE /\ param_keys' = Update(param_keys,
                                      (param :> SelectedValue(param, template_json["parameters"][param],
                                                              parameter_json)))
              /\ UNCHANGED <<pc, expanded>>
    /\ UNCHANGED <<template_json, parameter_json, prompted, setVars, factoryVars, appVars,
                   substVars, renderVars, packageVars, outputVars>>

\* lines 470-475: a parameter without value is asked for and the answer is
\* validated; an answer that is not valid leaves the parameter without value.
\* The answers that are not valid are bounded by MaxPrompts.
PromptCall ==
    /\ pc = "params"
    /\ AwaitedParameters # <<>>
    /\ \E answer \in PromptAnswers :
         /\ \/ Len(prompted) < MaxPrompts
            \/ ValidateParameter(Head(AwaitedParameters),
                                 template_json["parameters"][Head(AwaitedParameters)],
                                 PyStr(answer)) # PyNone
         /\ prompted' = Append(prompted, answer)
         /\ param_keys' =
              Update(param_keys,
                     (Head(AwaitedParameters) :>
                        ValidateParameter(Head(AwaitedParameters),
                                          template_json["parameters"][Head(AwaitedParameters)],
                                          PyStr(answer))))
    /\ UNCHANGED <<pc, template_json, parameter_json, expanded, setVars, factoryVars, appVars,
                   substVars, renderVars, packageVars, outputVars>>

\* line 1038: the template is rendered with the values chosen
ParseTemplateCall ==
    /\ pc = "params"
    /\ AwaitedParameters = <<>>
    /\ UnreachedParameters = <<>>
    /\ expanded' = ParseTemplate(template_json, param_keys)
    /\ pc' = "done"
    /\ UNCHANGED <<template_json, parameter_json, param_keys, prompted, setVars, factoryVars,
                   appVars, substVars, renderVars, packageVars, outputVars>>

NextTemplate == ExpandTemplateCall \/ SelectParameterValue \/ PromptCall \/ ParseTemplateCall
SpecTemplate == InitTemplate /\ [][NextTemplate]_vars

\* the prompt returns an answer that _validate_parameter accepts
AcceptedPrompt == PromptCall /\ AwaitedParameters' # AwaitedParameters
\* the runs in which a parameter can be asked for: the parameter file is
\* absent or has a value for s only
InitPrompt ==
    /\ InitTemplate
    /\ parameter_json \in {<<>>, [s |-> PyDict([value |-> PyStr(<<"c">>)])]}
\* the one who is asked does not give answers that are not valid for ever
SpecTemplateFair == InitPrompt /\ [][NextTemplate]_vars /\ WF_vars(AcceptedPrompt)

(***************************************************************************)
(* Package references: _get_installation_cmdline,                          *)
(* process_pool_package_references, process_task_package_references.  A    *)
(* command line is the sequence of the pieces of text it is put together   *)
(* from.                                                                   *)
(***************************************************************************)
MaxRefs == 2
MaxTasks == 2

\* PoolOperatingSystemFlavor
WINDOWS == "windows"
LINUX == "linux"
PyList(l) == [list |-> l]

\* sub occurs in s: s.find(sub) >= 0
Contains(s, sub) == \E i \in 0..(Len(s) - Len(sub)) : SubSeq(s, i + 1, i + Len(sub)) = sub
MicrosoftWindowsServer ==
    <<"M", "i", "c", "r", "o", "s", "o", "f", "t", "W", "i", "n", "d", "o", "w", "s",
      "S", "e", "r", "v", "e", "r">>
\* the publisher of the image, <<>> where Python has None after the KeyError
ImagePublisher(pool_obj) ==
    IF ~Has(pool_obj, "virtualMachineConfiguration") THEN <<>>
    ELSE IF ~Has(pool_obj["virtualMachineConfiguration"], "imageReference") THEN <<>>
    ELSE GetOr(pool_obj["virtualMachineConfiguration"]["imageReference"], "publisher", <<>>)
\* _pool_utils.py lines 16-25
GetPoolTargetOsType(pool_obj) ==
    IF ImagePublisher(pool_obj) = <<>> \/ Contains(ImagePublisher(pool_obj), MicrosoftWindowsServer)
    THEN WINDOWS ELSE LINUX

\* package_type of the three installable kinds of reference
PackageType(type) ==
    CASE type = "aptPackage" -> "apt"
      [] type = "chocolateyPackage" -> "choco"
      [] type = "yumPackage" -> "yum"
      [] OTHER -> ""
\* Mutant of RequiredFlavor: yum is taken for a Windows package manager
RequiredFlavorYumOnWindows(package_type) == IF package_type = "apt" THEN LINUX ELSE WINDOWS
\* lines 249, 260, 273: the flavor the pool must have
RequiredFlavor(package_type) == IF package_type = "choco" THEN WINDOWS ELSE LINUX
\* lines 257, 268, 282: what stands between two installations
Separator(package_type) == IF package_type = "choco" THEN " & " ELSE ";"
\* lines 255-256, 264-267, 276-281: the installation of one package
InstallCommand(package_type, reference) ==
    CASE package_type = "apt" ->
           <<"apt-get install -y ", reference["id"]>>
             \o (IF Has(reference, "version") THEN <<"=", reference["version"]>> ELSE <<>>)
      [] package_type = "choco" ->
           <<"choco install ", reference["id"]>>
             \o (IF Has(reference, "version") THEN <<" --version ", reference["version"]>> ELSE <<>>)
             \o (IF Has(reference, "allowEmptyChecksums") THEN <<" --allow-empty-checksums">> ELSE <<>>)
      [] OTHER ->
           <<"yum -y install ", reference["id"]>>
             \o (IF Has(reference, "version") THEN <<"-", reference["version"]>> ELSE <<>>)
             \o (IF Has(reference, "disableExcludes")
                 THEN <<" --disableexcludes=", reference["disableExcludes"]>> ELSE <<>>)

\* lines 245-290: one turn of the loop; package_type is "" for None
AddReference(reference, flavor, builder, package_type) ==
    IF ~Has(reference, "type") \/ ~Has(reference, "id") THEN Err("type_or_id_missing")
    ELSE IF PackageType(reference["type"]) # ""
         THEN IF package_type # "" /\ package_type # PackageType(reference["type"])
              THEN Err("single_type_only")
              ELSE IF flavor # RequiredFlavor(PackageType(reference["type"]))
                   THEN Err("flavor_not_supported")
              ELSE Ok([builder |-> builder
                                     \o (IF builder # <<>>
                                         THEN <<Separator(PackageType(reference["type"]))>>
                                         ELSE <<>>)
                                     \o InstallCommand(PackageType(reference["type"]), reference),
                       package_type |-> PackageType(reference["type"])])
    ELSE IF reference["type"] = "applicationPackage" THEN Err("application_package_unsupported")
    ELSE Err("unknown_type")

RECURSIVE AddReferences(_, _, _, _)
AddReferences(references, flavor, builder, package_type) ==
    IF references = <<>> THEN Ok([builder |-> builder, package_type |-> package_type])
    ELSE Bind(AddReference(Head(references), flavor, builder, package_type), LAMBDA added :
              AddReferences(Tail(references), flavor, added.builder, added.package_type))

\* lines 291-300
Command(builder, package_type) ==
    CASE package_type = "apt" -> <<"apt-get update;">> \o builder
      [] package_type = "choco" ->
           <<"powershell -NoProfile -ExecutionPolicy unrestricted -Command \"(iex ((new-object net.webclient).DownloadString('https://chocolatey.org/install.ps1')))\" && SET PATH=\"%PATH%;%ALLUSERSPROFILE%\\chocolatey\\bin\"",
             " && choco feature enable -n=allowGlobalConfirmation & ">> \o builder
      [] OTHER -> builder

\* lines 233-301; None for no references
GetInstallationCmdline(references, flavor) ==
    IF references = <<>> THEN Ok(PyNone)
    ELSE Bind(AddReferences(references, flavor, <<>>, ""), LAMBDA built :
              Ok([cmdLine |-> Command(built.builder, built.package_type),
                  isWindows |-> built.package_type = "choco"]))

\* lines 1148-1155
ProcessPoolPackageReferences(pool_obj) ==
    IF ~Has(pool_obj, "packageReferences") THEN Err("KeyError")
    ELSE IF TypeOf(pool_obj["packageReferences"]) # "list" THEN Err("TypeError")
    ELSE GetInstallationCmdline(ValueOf(pool_obj["packageReferences"]),
                                GetPoolTargetOsType(pool_obj))

\* line 1172: package['id'] in included
Included(package, collected) ==
    \E i \in 1..Len(collected) : collected[i]["id"] = package["id"]

RECURSIVE CollectPackages(_, _)
\* lines 1169-1174 for the references of one task
CollectPackages(references, collected) ==
    IF references = <<>> THEN Ok(collected)
    ELSE IF ~Has(Head(references), "id") \/ ~Has(Head(references), "type")
         THEN Err("type_or_id_missing")
    ELSE CollectPackages(Tail(references),
                         IF Included(Head(references), collected) THEN collected
                         ELSE Append(collected, Head(references)))

\* Mutant of WithoutPackageReferences: the task keeps its references
WithPackageReferences(task) == task
\* line 1175
WithoutPackageReferences(task) == [k \in DOMAIN task \ {"packageReferences"} |-> task[k]]

RECURSIVE CollectFromTasks(_, _, _)
\* lines 1167-1179: the packages collected and the tasks as the loop leaves
\* them; the tasks before the one that raises have lost their references
CollectFromTasks(task_list, i, collected) ==
    IF i > Len(task_list) THEN [err |-> "", packages |-> collected, tasks |-> task_list]
    ELSE IF ~Has(task_list[i], "packageReferences")
         THEN CollectFromTasks(task_list, i + 1, collected)
    ELSE IF TypeOf(task_list[i]["packageReferences"]) # "list"
         THEN [err |-> "TypeError", packages |-> collected, tasks |-> task_list]
    ELSE IF ~IsOk(CollectPackages(ValueOf(task_list[i]["packageReferences"]), collected))
         THEN [err |-> "type_or_id_missing", packages |-> collected, tasks |-> task_list]
    ELSE CollectFromTasks(
             [task_list EXCEPT ![i] = WithoutPackageReferences(task_list[i])], i + 1,
             CollectPackages(ValueOf(task_list[i]["packageReferences"]), collected).val)

\* line 1180, or the error of the loop; with the packages the command is
\* built from and the tasks after the call
CommandFor(collected, flavor) ==
    [result |-> IF collected.err # "" THEN Err(collected.err)
                ELSE GetInstallationCmdline(collected.packages, flavor),
     packages |-> collected.packages,
     tasks |-> collected.tasks]
\* lines 1158-1180
ProcessTaskPackageReferences(task_list, flavor) ==
    IF task_list = <<>> THEN [result |-> Ok(PyNone), packages |-> <<>>, tasks |-> task_list]
    ELSE CHOOSE processed \in {CommandFor(collected, flavor) :
                                  collected \in {CollectFromTasks(task_list, 1, <<>>)}} : TRUE

\* the references of a pool: the three installable types, an application
\* package, an unknown type, a reference without id, references with options
PackageRef(type, id) == [type |-> type, id |-> id]
PoolRefs ==
    {PackageRef(type, id) : type \in {"aptPackage", "yumPackage", "chocolateyPackage"},
                            id \in {"curl", "vim"}}
    \cup {PackageRef("applicationPackage", "curl"), PackageRef("rpmPackage", "curl"),
          [type |-> "aptPackage"],
          [type |-> "aptPackage", id |-> "curl", version |-> "1.0"],
          [type |-> "chocolateyPackage", id |-> "curl", version |-> "1.0", allowEmptyChecksums |-> TRUE],
          [type |-> "yumPackage", id |-> "curl", version |-> "1.0", disableExcludes |-> "main"]}
\* the images: none, a Linux one, Windows ones, one without publisher
Images ==
    {<<>>, [virtualMachineConfiguration |-> [imageReference |-> [offer |-> "x"]]]}
    \cup {[virtualMachineConfiguration |-> [imageReference |-> [publisher |-> publisher]]] :
            publisher \in {<<"C", "a", "n", "o", "n", "i", "c", "a", "l">>, MicrosoftWindowsServer,
                           <<"x">> \o MicrosoftWindowsServer \o <<"2">>}}
Pools ==
    {Update(image, [packageReferences |-> references]) :
        image \in Images,
        references \in {PyList(l) : l \in SeqsOf(PoolRefs, 0, MaxRefs)} \cup {PyNone}}
\* the tasks: without references, with references that are no collection,
\* with up to MaxRefs references, most of them of the flavor of the pool
TaskRefs(flavor) ==
    IF flavor = LINUX
    THEN {PackageRef("aptPackage", "curl"), PackageRef("yumPackage", "curl"),
          PackageRef("aptPackage", "vim")}
    ELSE {PackageRef("chocolateyPackage", "curl"), PackageRef("aptPackage", "curl"),
          PackageRef("chocolateyPackage", "vim")}
Tasks(flavor) ==
    {[id |-> "t"], [id |-> "t", packageReferences |-> PyNone],
     [id |-> "t", packageReferences |-> PyList(<<[type |-> "aptPackage"]>>)]}
    \cup {[id |-> "t", packageReferences |-> PyList(l)] : l \in SeqsOf(TaskRefs(flavor), 0, MaxRefs)}

InitPackages ==
    /\ pc = "start"
    /\ \/ pool \in Pools /\ tasks_in = <<>> /\ os_flavor = ""
       \/ /\ pool = <<>>
          /\ os_flavor \in {WINDOWS, LINUX}
          /\ tasks_in \in SeqsOf(Tasks(os_flavor), 0, MaxTasks)
    /\ tasks = tasks_in
    /\ packages = <<>>
    /\ pool_cmd = NotCalled
    /\ task_cmd = NotCalled
    /\ SetIdle /\ FactoryIdle /\ AppIdle /\ SubstIdle /\ RenderIdle /\ TemplateIdle /\ OutputIdle

\* process_pool_package_references(pool)
ProcessPoolPackageReferencesCall ==
    /\ pc = "start"
    /\ pool # <<>>
    /\ pool_cmd' = ProcessPoolPackageReferences(pool)
    /\ os_flavor' = GetPoolTargetOsType(pool)
    /\ pc' = "done"
    /\ UNCHANGED <<pool, tasks_in, tasks, task_cmd, packages, setVars, factoryVars, appVars,
                   substVars, renderVars, templateVars, outputVars>>

\* process_task_package_references(tasks, os_flavor)
ProcessTaskPackageReferencesCall ==
    /\ pc = "start"
    /\ os_flavor # ""
    /\ \E processed \in {ProcessTaskPackageReferences(tasks_in, os_flavor)} :
         /\ task_cmd' = processed.result
         /\ packages' = processed.packages
         /\ tasks' = processed.tasks
    /\ pc' = "done"
    /\ UNCHANGED <<pool, tasks_in, os_flavor, pool_cmd, setVars, factoryVars, appVars,
                   substVars, renderVars, templateVars, outputVars>>

NextPackages == ProcessPoolPackageReferencesCall \/ ProcessTaskPackageReferencesCall
SpecPackages == InitPackages /\ [][NextPackages]_vars

(***************************************************************************)
(* Output files: _parse_task_output_files, process_job_for_output_files,   *)
(* _get_output_source_url, should_get_pool.  A text (URL, command line,    *)
(* JSON) is the sequence of the pieces it is put together from, '/' being  *)
(* a piece of its own in a URL.                                            *)
(***************************************************************************)
\* lines 25-36
ROOT_FILE_UPLOAD_URL ==
    <<"https:", "/", "/", "raw.githubusercontent.com", "/", "Azure", "/",
      "azure-batch-cli-extensions", "/", "master">>
FILE_EGRESS_ENV_NAME == "AZ_BATCH_FILE_UPLOAD_CONFIG"
\* Mutant of FILE_EGRESS_PREFIX: the files sit at the root
FileEgressAtRoot == <<>>
FILE_EGRESS_PREFIX ==
    <<"azure", "/", "cli", "/", "command_modules", "/", "batch_extensions", "/", "fileegress", "/">>
UploaderFiles ==
    {"batchfileuploader.py", "configuration.py", "requirements.txt", "setup_uploader.py",
     "uploader.py", "util.py", "uploadfiles.py"}
FILE_EGRESS_RESOURCES == {FILE_EGRESS_PREFIX \o <<name>> : name \in UploaderFiles}

\* urljoin(base, url) of a relative url and a base without query and
\* fragment: what follows the last '/' of the base is replaced by the url
UrlJoin(base, url) ==
    IF \E i \in 1..Len(base) : base[i] = "/"
    THEN SubSeq(base, 1, CHOOSE i \in 1..Len(base) :
                             base[i] = "/" /\ \A j \in (i + 1)..Len(base) : base[j] # "/") \o url
    ELSE url
\* lines 200-201
RootUrl(env) ==
    IF GetOr(env, "FILE_EGRESS_OVERRIDE_URL", ROOT_FILE_UPLOAD_URL) # <<>>
         /\ GetOr(env, "FILE_EGRESS_OVERRIDE_URL", ROOT_FILE_UPLOAD_URL)[
                Len(GetOr(env, "FILE_EGRESS_OVERRIDE_URL", ROOT_FILE_UPLOAD_URL))] = "/"
    THEN GetOr(env, "FILE_EGRESS_OVERRIDE_URL", ROOT_FILE_UPLOAD_URL)
    ELSE GetOr(env, "FILE_EGRESS_OVERRIDE_URL", ROOT_FILE_UPLOAD_URL) \o <<"/">>
\* lines 195-202
GetOutputSourceUrl(path, env) == UrlJoin(RootUrl(env), path)
\* os.path.split(path)[1]
BaseName(path) ==
    IF \E i \in 1..Len(path) : path[i] = "/"
    THEN SubSeq(path, 1 + (CHOOSE i \in 1..Len(path) :
                               path[i] = "/" /\ \A j \in (i + 1)..Len(path) : path[j] # "/"),
                Len(path))
    ELSE path

\* the texts of a list with a separator between them
RECURSIVE JoinTexts(_, _)
JoinTexts(texts, separator) ==
    IF texts = <<>> THEN <<>>
    ELSE IF Len(texts) = 1 THEN texts[1]
    ELSE texts[1] \o <<separator>> \o JoinTexts(Tail(texts), separator)
\* The keys of an output file, in the order of the file; the keys whose
\* value is a str, the others holding a dict
OutputKeyOrder ==
    <<"filePattern", "destination", "uploadDetails", "container", "autoStorage",
      "containerSas", "path", "fileGroup", "taskStatus">>
OutputStrKeys == {"filePattern", "containerSas", "path", "fileGroup", "taskStatus"}
\* the keys of a dict in the order json.dumps writes them: the container a
\* rewritten destination gets has containerSas before path
OutputKeys(obj) == SelectSeq(OutputKeyOrder, LAMBDA k : k \in DOMAIN obj)
RECURSIVE JsonDumpsObject(_)
\* json.dumps of a dict of an output file
JsonDumpsObject(obj) ==
    <<"{">> \o JoinTexts([i \in 1..Len(OutputKeys(obj)) |->
                            <<"\"", OutputKeys(obj)[i], "\"", ": ">>
                              \o (IF OutputKeys(obj)[i] \in OutputStrKeys
                                  THEN <<"\"", obj[OutputKeys(obj)[i]], "\"">>
                                  ELSE JsonDumpsObject(obj[OutputKeys(obj)[i]]))], ", ")
          \o <<"}">>
\* lines 738-739: json.dumps({'outputFiles': output_files})
ConfigStr(output_files) ==
    <<"{", "\"", "outputFiles", "\"", ": ", "[">>
      \o JoinTexts([i \in 1..Len(output_files) |-> JsonDumpsObject(output_files[i])], ", ")
      \o <<"]", "}">>

\* file_utils.get_container_sas(file_group): the storage collaborator
GetContainerSas(file_group) == IF file_group = "g" THEN "sas-of-g" ELSE "sas-of-other"
\* lines 718-722: the destination with autoStorage replaced by a container
ContainerOf(destination) ==
    [container |->
        IF Has(destination["autoStorage"], "path")
        THEN [containerSas |-> GetContainerSas(destination["autoStorage"]["fileGroup"]),
              path |-> destination["autoStorage"]["path"]]
        ELSE [containerSas |-> GetContainerSas(destination["autoStorage"]["fileGroup"])]]
\* lines 706-724 for one output file: what is raised for it, "" when nothing is
OutputFileError(output_file) ==
    IF \E prop \in {"filePattern", "destination", "uploadDetails"} : ~Has(output_file, prop)
    THEN "property_missing"
    ELSE IF ~Has(output_file["destination"], "container")
              /\ ~Has(output_file["destination"], "autoStorage")
         THEN "destination_missing"
    ELSE IF Has(output_file["destination"], "container")
              /\ Has(output_file["destination"], "autoStorage")
         THEN "two_destinations"
    ELSE IF Has(output_file["destination"], "autoStorage")
              /\ ~Has(output_file["destination"]["autoStorage"], "fileGroup")
         THEN "file_group_missing"
    ELSE IF ~Has(output_file["uploadDetails"], "taskStatus")
         THEN "task_status_missing"
    ELSE ""
\* Mutant of RewrittenOutputFile: the destination is kept as it was supplied
OutputFileAsSupplied(output_file) == output_file
\* lines 706-722 for one output file: the file as the loop leaves it, its
\* destination being rewritten in place before taskStatus is looked at
RewrittenOutputFile(output_file) ==
    IF OutputFileError(output_file) \in {"", "task_status_missing"}
         /\ Has(output_file["destination"], "autoStorage")
    THEN [output_file EXCEPT !["destination"] = ContainerOf(output_file["destination"])]
    ELSE output_file
\* lines 705-724: the index of the output file the loop raises for, 0 when
\* it raises for none
FailingOutputFile(output_files) ==
    IF \E i \in 1..Len(output_files) : OutputFileError(output_files[i]) # ""
    THEN CHOOSE i \in 1..Len(output_files) :
             /\ OutputFileError(output_files[i]) # ""
             /\ \A j \in 1..(i - 1) : OutputFileError(output_files[j]) = ""
    ELSE 0
\* lines 705-724: the list as the loop leaves it, the files after the
\* failing one being untouched
RewrittenOutputFiles(output_files) ==
    [i \in 1..Len(output_files) |->
        IF FailingOutputFile(output_files) = 0 \/ i <= FailingOutputFile(output_files)
        THEN RewrittenOutputFile(output_files[i])
        ELSE output_files[i]]

\* shlex.quote of a text that holds ';' and '$': quotes around it, and
\* every quote of the text written '"'"'
ShellEscape(text) ==
    <<"'">> \o Flatten([i \in 1..Len(text) |->
                           IF text[i] = "'" THEN <<"'\"'\"'">> ELSE <<text[i]>>]) \o <<"'">>
\* lines 726-737
UploadCommandLine(new_task, flavor) ==
    IF flavor \notin {WINDOWS, LINUX} THEN Err("unknown_flavor")
    ELSE IF ~Has(new_task, "commandLine") THEN Err("KeyError")
    ELSE IF flavor = WINDOWS
    THEN Ok(<<"cmd /c \"">> \o new_task["commandLine"]
              \o <<" & ", "%AZ_BATCH_JOB_PREP_WORKING_DIR%\\uploadfiles.py", " %errorlevel%", "\"">>)
    ELSE Ok(<<"/bin/bash -c ">>
              \o ShellEscape(new_task["commandLine"]
                               \o <<";err=$?;", "$AZ_BATCH_JOB_PREP_WORKING_DIR/uploadfiles.py",
                                    " $err;exit $err">>))
\* line 742; the task has environmentSettings
WithUploadConfig(task, config_str) ==
    [task EXCEPT !["environmentSettings"] =
        Append(task["environmentSettings"], [name |-> FILE_EGRESS_ENV_NAME, value |-> config_str])]
\* lines 740-741
WithEnvironment(task) ==
    IF Has(task, "environmentSettings") THEN task
    ELSE Update(task, [environmentSettings |-> <<>>])
\* line 703
WithoutOutputFiles(task) == [k \in DOMAIN task \ {"outputFiles"} |-> task[k]]

\* lines 705-724: the task after the loop, its output files being edited in place
WithRewrittenOutputFiles(task) ==
    [task EXCEPT !["outputFiles"] = PyList(RewrittenOutputFiles(ValueOf(task["outputFiles"])))]
\* lines 695-743: the result, and the task that was passed as the call leaves it
ParseTaskOutputFiles(task, flavor) ==
    IF ~Has(task, "outputFiles") \/ task["outputFiles"] = PyNone
    THEN [result |-> Ok(task), task |-> task]
    ELSE [result |->
            IF FailingOutputFile(ValueOf(task["outputFiles"])) # 0
            THEN Err(OutputFileError(
                         ValueOf(task["outputFiles"])[FailingOutputFile(ValueOf(task["outputFiles"]))]))
            ELSE Bind(UploadCommandLine(task, flavor), LAMBDA command_line :
                      Ok(WithUploadConfig(
                             WithEnvironment([WithoutOutputFiles(task) EXCEPT
                                                 !["commandLine"] = command_line]),
                             ConfigStr(RewrittenOutputFiles(ValueOf(task["outputFiles"])))))),
          task |-> WithRewrittenOutputFiles(task)]

RECURSIVE ParseTasksFrom(_, _, _)
\* lines 1124-1128: what is raised, and the tasks as the loop leaves them
ParseTasksFrom(task_list, i, flavor) ==
    IF i > Len(task_list) THEN [err |-> "", tasks |-> task_list]
    ELSE IF ~IsOk(ParseTaskOutputFiles(task_list[i], flavor).result)
         THEN [err |-> ParseTaskOutputFiles(task_list[i], flavor).result.err,
               tasks |-> [task_list EXCEPT ![i] = ParseTaskOutputFiles(task_list[i], flavor).task]]
    ELSE ParseTasksFrom([task_list EXCEPT ![i] = ParseTaskOutputFiles(task_list[i], flavor).result.val],
                        i + 1, flavor)

\* lines 1130-1134
SetupResources(flavor) ==
    IF flavor = WINDOWS THEN FILE_EGRESS_RESOURCES \cup {FILE_EGRESS_PREFIX \o <<"bootstrap.cmd">>}
    ELSE FILE_EGRESS_RESOURCES
\* Mutant of SetupDescriptor: is_windows stays as it is initialised
SetupDescriptorWindows(flavor, env) ==
    IF flavor \notin {WINDOWS, LINUX} THEN Err("unknown_flavor")
    ELSE Ok([cmdLine |-> IF flavor = WINDOWS
                         THEN <<"(bootstrap.cmd && setup_uploader.py) > setuplog.txt 2>&1">>
                         ELSE <<"setup_uploader.py > setuplog.txt 2>&1">>,
             resourceFiles |-> {[blobSource |-> GetOutputSourceUrl(f, env), filePath |-> BaseName(f)] :
                                   f \in FILE_EGRESS_RESOURCES
                                           \cup (IF flavor = WINDOWS
                                                 THEN {FILE_EGRESS_PREFIX \o <<"bootstrap.cmd">>}
                                                 ELSE {})},
             isWindows |-> TRUE])
\* lines 1129-1144: the descriptor; the resource files are listed in the
\* order of a set, which the model leaves out
SetupDescriptor(flavor, env) ==
    IF flavor \notin {WINDOWS, LINUX} THEN Err("unknown_flavor")
    ELSE Ok([cmdLine |-> IF flavor = WINDOWS
                         THEN <<"(bootstrap.cmd && setup_uploader.py) > setuplog.txt 2>&1">>
                         ELSE <<"setup_uploader.py > setuplog.txt 2>&1">>,
             resourceFiles |-> {[blobSource |-> GetOutputSourceUrl(f, env), filePath |-> BaseName(f)] :
                                   f \in SetupResources(flavor)},
             isWindows |-> flavor = WINDOWS])

\* lines 1106-1145: the result, the job and the tasks after the call
ProcessJobForOutputFiles(job_obj, task_list, flavor, env) ==
    IF Has(job_obj, "jobManagerTask")
         /\ ~IsOk(ParseTaskOutputFiles(job_obj["jobManagerTask"], flavor).result)
    THEN [result |-> Err(ParseTaskOutputFiles(job_obj["jobManagerTask"], flavor).result.err),
          job |-> [job_obj EXCEPT !["jobManagerTask"] =
                      ParseTaskOutputFiles(job_obj["jobManagerTask"], flavor).task],
          tasks |-> task_list]
    ELSE CHOOSE processed \in
           {[result |-> IF parsed.tasks.err # "" THEN Err(parsed.tasks.err)
                        ELSE IF parsed.job # job_obj \/ parsed.tasks.tasks # task_list
                        THEN SetupDescriptor(flavor, env)
                        ELSE Ok(PyNone),
             job |-> parsed.job,
             tasks |-> parsed.tasks.tasks] :
              parsed \in {[job |-> IF Has(job_obj, "jobManagerTask")
                                   THEN [job_obj EXCEPT !["jobManagerTask"] =
                                            ParseTaskOutputFiles(job_obj["jobManagerTask"], flavor).result.val]
                                   ELSE job_obj,
                           tasks |-> ParseTasksFrom(task_list, 1, flavor)]}} : TRUE

\* task.get(key) is a list that is not empty
HasListed(task, key) ==
    Has(task, key) /\ task[key] # PyNone /\ ValueOf(task[key]) # <<>>
\* lines 1194-1212
ShouldGetPool(task_list) ==
    \E i \in 1..Len(task_list) :
        \/ HasListed(task_list[i], "packageReferences")
        \/ HasListed(task_list[i], "outputFiles")
        \/ /\ Has(task_list[i], "clientExtensions")
           /\ Has(task_list[i]["clientExtensions"], "dockerOptions")

\* the output files: to a container, to auto storage with and without path,
\* with two destinations, without taskStatus
ToContainer ==
    [filePattern |-> "*.txt", destination |-> [container |-> [containerSas |-> "sas"]],
     uploadDetails |-> [taskStatus |-> "TaskSuccess"]]
ToAutoStorage ==
    [filePattern |-> "*.log", destination |-> [autoStorage |-> [fileGroup |-> "g"]],
     uploadDetails |-> [taskStatus |-> "TaskCompletion"]]
ToAutoStoragePath ==
    [filePattern |-> "*.log", destination |-> [autoStorage |-> [fileGroup |-> "h", path |-> "logs"]],
     uploadDetails |-> [taskStatus |-> "TaskCompletion"]]
TwoDestinations ==
    [filePattern |-> "*.txt",
     destination |-> [container |-> [containerSas |-> "sas"], autoStorage |-> [fileGroup |-> "g"]],
     uploadDetails |-> [taskStatus |-> "TaskSuccess"]]
NoTaskStatus ==
    [filePattern |-> "*.txt", destination |-> [autoStorage |-> [fileGroup |-> "g"]],
     uploadDetails |-> [other |-> "x"]]
OutputFileLists ==
    {<<>>, <<ToContainer>>, <<ToAutoStorage>>, <<ToAutoStoragePath, ToContainer>>,
     <<TwoDestinations>>, <<ToAutoStorage, NoTaskStatus>>}
\* the tasks: with and without output files, with and without environment
\* settings, with package references, with docker options
PlainTask == [commandLine |-> <<"run">>]
EnvironmentSettings ==
    {<<[name |-> "A", value |-> <<"v">>]>>,
     <<[name |-> "A", value |-> <<"v">>], [name |-> FILE_EGRESS_ENV_NAME, value |-> <<"old">>]>>}
OutputTasks ==
    {PlainTask, [commandLine |-> <<"run">>, outputFiles |-> PyNone],
     [commandLine |-> <<"echo ", "'", "hi", "'">>, outputFiles |-> PyList(<<ToAutoStorage>>)],
     [commandLine |-> <<"run">>, packageReferences |-> PyList(<<>>)],
     [commandLine |-> <<"run">>, packageReferences |-> PyList(<<PackageRef("aptPackage", "curl")>>)],
     [commandLine |-> <<"run">>, clientExtensions |-> [dockerOptions |-> [image |-> "i"]]]}
    \cup {[commandLine |-> <<"run">>, outputFiles |-> PyList(l)] : l \in OutputFileLists}
    \cup {[commandLine |-> <<"run">>, outputFiles |-> PyList(<<ToContainer>>),
           environmentSettings |-> e] : e \in EnvironmentSettings}
\* the jobs: without job manager task, with one, with one that has output files
OutputJobs ==
    {[id |-> "job"], [id |-> "job", jobManagerTask |-> PlainTask],
     [id |-> "job", jobManagerTask |->
        [commandLine |-> <<"run">>, outputFiles |-> PyList(<<ToAutoStoragePath>>)]]}
\* the environment: no override, an override with and without the last '/'
Environments ==
    {<<>>, [FILE_EGRESS_OVERRIDE_URL |-> <<"http:", "/", "/", "host", "/", "egress">>],
     [FILE_EGRESS_OVERRIDE_URL |-> <<"http:", "/", "/", "host", "/", "egress", "/">>]}

InitOutput ==
    /\ pc = "start"
    /\ job \in OutputJobs
    /\ job_in = job
    /\ tasks_in \in SeqsOf(OutputTasks, 0, MaxTasks)
    /\ tasks = tasks_in
    /\ os_flavor \in {WINDOWS, LINUX, ""}
    /\ environ \in Environments
    /\ setup = NotCalled
    /\ get_pool = NotCalled
    /\ pool = <<>> /\ pool_cmd = NotCalled /\ task_cmd = NotCalled /\ packages = <<>>
    /\ container_list = <<>> /\ task_factory = <<>> /\ task_objs = NotCalled
    /\ working_dir = <<>> /\ fs = <<>> /\ template_check = NotCalled /\ app_error = "not_called"
    /\ SetIdle /\ SubstIdle /\ RenderIdle /\ TemplateIdle

\* should_get_pool(tasks), before the tasks are rewritten
ShouldGetPoolCall ==
    /\ pc = "start"
    /\ job_in # <<>>
    /\ get_pool' = Ok(ShouldGetPool(tasks))
    /\ pc' = "pool"
    /\ UNCHANGED <<job, job_in, tasks_in, tasks, os_flavor, environ, setup, pool, pool_cmd,
                   task_cmd, packages, container_list, task_factory, task_objs, working_dir,
                   fs, template_check, app_error, setVars, substVars, renderVars, templateVars>>

\* process_job_for_output_files(job, tasks, os_flavor, file_utils): the job
\* and the tasks are edited in place
ProcessJobForOutputFilesCall ==
    /\ pc = "pool"
    /\ \E processed \in {ProcessJobForOutputFiles(job, tasks, os_flavor, environ)} :
         /\ setup' = processed.result
         /\ job' = processed.job
         /\ tasks' = processed.tasks
    /\ pc' = "done"
    /\ UNCHANGED <<job_in, tasks_in, os_flavor, environ, get_pool, pool, pool_cmd,
                   task_cmd, packages, container_list, task_factory, task_objs, working_dir,
                   fs, template_check, app_error, setVars, substVars, renderVars, templateVars>>

NextOutput == ShouldGetPoolCall \/ ProcessJobForOutputFilesCall
SpecOutput == InitOutput /\ [][NextOutput]_vars

(***************************************************************************)
(* Properties of the task-factory expansion                                *)
(***************************************************************************)
\* s is the decimal numeral of the natural number k: digits only, no leading
\* zero, and of value k
IsDecimalOf(s, k) ==
    /\ Len(s) >= 1
    /\ \A i \in 1..Len(s) : IsDigit(s[i])
    /\ Len(s) > 1 => s[1] # "0"
    /\ ParseInt(s) = k

RepeatingFactoryDone ==
    /\ pc = "done" /\ IsOk(task_objs)
    /\ Has(task_factory, "type")
    /\ task_factory["type"] \in {"parametricSweep", "taskPerFile"}

\* The number of contexts the repeat task is expanded for
ContextCount ==
    IF task_factory["type"] = "taskPerFile" THEN Len(container_list)
    ELSE Len(ParseParameterSets(task_factory["parameterSets"]).val)

\* C1: after a successful expansion of a parametricSweep or taskPerFile factory
\* into N repeat tasks, the k-th task (k = 0..N-1) has the decimal numeral of k
\* as id; with a mergeTask exactly one more task follows, the last one, with id
\* "merge" and dependsOn.taskIdRanges = {start: 0, end: N-1}.
C1_TaskIds ==
    RepeatingFactoryDone =>
        LET N == ContextCount
            merged == Has(task_factory, "mergeTask")
        IN  /\ Len(task_objs.val) = N + (IF merged THEN 1 ELSE 0)
            /\ \A k \in 0..(N - 1) : IsDecimalOf(task_objs.val[k + 1]["id"], k)
            /\ merged =>
                 /\ task_objs.val[N + 1]["id"] = <<"m", "e", "r", "g", "e">>
                 /\ task_objs.val[N + 1]["dependsOn"] =
                        [taskIdRanges |-> [start |-> 0, end |-> N - 1]]

\* A sweep of more than ten tasks with a merge task has been expanded.
C1_Witness ==
    /\ RepeatingFactoryDone
    /\ task_factory["type"] = "parametricSweep"
    /\ Has(task_factory, "mergeTask")
    /\ Len(task_objs.val) >= 12
    /\ task_objs.val[12]["id"] = <<"1", "1">>

\* The value ranges S_1..S_k generated by the parameter sets of the factory
SweepRanges ==
    [i \in 1..Len(task_factory["parameterSets"]) |->
        ParseParameterSet(task_factory["parameterSets"][i]).val]

RECURSIVE SizeProduct(_, _)
\* |S_from| * ... * |S_k|
SizeProduct(ranges, from) ==
    IF from > Len(ranges) THEN 1 ELSE Len(ranges[from]) * SizeProduct(ranges, from + 1)

\* The k-th tuple (from 0) of S_1 x ... x S_k in lexicographic order, the last
\* coordinate varying fastest
LexTuple(ranges, k) ==
    [j \in 1..Len(ranges) |->
        ranges[j][((k \div SizeProduct(ranges, j + 1)) % Len(ranges[j])) + 1]]

\* C2: a parametricSweep factory whose sets generate S_1..S_k expands into one
\* repeat task per tuple of S_1 x ... x S_k, in lexicographic order with the
\* last set varying fastest: |S_1|*...*|S_k| tasks, plus one for a mergeTask.
C2_CartesianOrder ==
    (RepeatingFactoryDone /\ task_factory["type"] = "parametricSweep") =>
        LET ranges == SweepRanges
            N == SizeProduct(ranges, 1)
            rt == ParseRepeatTask(task_factory["repeatTask"]).val
        IN  /\ Len(task_objs.val) = N + (IF Has(task_factory, "mergeTask") THEN 1 ELSE 0)
            /\ \A k \in 0..(N - 1) :
                 task_objs.val[k + 1]["commandLine"] =
                    ReplacementTransform("sweep", rt, "commandLine", LexTuple(ranges, k)).val["commandLine"]

\* Two sets of several values each have been expanded with "{0},{1}".
C2_Witness ==
    /\ RepeatingFactoryDone
    /\ task_factory["type"] = "parametricSweep"
    /\ Len(task_factory["parameterSets"]) = 2
    /\ task_factory["repeatTask"]["commandLine"] = PairCmd
    /\ Len(SweepRanges[1]) >= 2 /\ Len(SweepRanges[2]) >= 3
    /\ task_objs.val[2]["commandLine"] = <<"0", ",", "2">>

(***************************************************************************)
(* Properties of _parse_parameter_sets                                     *)
(***************************************************************************)
\* C3: a set {start, end, step} (step defaulting to 1) is rejected exactly when
\* step = 0, or start > end with step > 0, or start < end with step < 0; every
\* accepted set generates the progression start, start+step, ... bounded by
\* end, which is never empty: it contains start, and contains end whenever
\* (end - start) is a multiple of step.
C3_RangeNeverEmpty ==
    pc = "done" =>
        LET ps == parameter_sets[1]
            start == ps["start"]
            end == ps["end"]
            step == IF Has(ps, "step") THEN ps["step"] ELSE 1
            rejected == step = 0 \/ (start > end /\ step > 0) \/ (start < end /\ step < 0)
            r == [i \in 1..Len(permutations.val) |-> permutations.val[i][1]]
        IN  /\ rejected <=> ~IsOk(permutations)
            /\ ~rejected =>
                 /\ Len(r) >= 1
                 /\ r[1] = start
                 /\ \A i \in 1..Len(r) :
                      /\ r[i] = start + (i - 1) * step
                      /\ IF step > 0 THEN r[i] <= end ELSE r[i] >= end
                 /\ IF step > 0 THEN r[Len(r)] + step > end ELSE r[Len(r)] + step < end
                 /\ (\E q \in 0..(2 * MaxAbs) : end - start = q * step) =>
                        \E i \in 1..Len(r) : r[i] = end

(***************************************************************************)
(* Properties of the placeholder substitution                              *)
(***************************************************************************)
IsPlaceholder(t) == t.kind = "ph"
IsDoubled(t) ==
    /\ t.kind = "lit"
    /\ t.text \in {<<"{", "{">>, <<"}", "}">>, <<"{", "{", "{", "{">>, <<"}", "}", "}", "}">>}
IsSingleBrace(t) == t.kind = "lit" /\ t.text \in {<<"{">>, <<"}">>}
IsPlain(t) == t.kind = "lit" /\ ~IsDoubled(t) /\ ~IsSingleBrace(t)

\* The placeholder cannot be replaced for sweep values p
BadPlaceholder(t, p) ==
    /\ IsPlaceholder(t)
    /\ \/ ParseInt(t.n) >= Len(p)
       \/ t.colon /\ (ParseInt(t.m) \notin 1..9 \/ p[ParseInt(t.n) + 1] < 0)

\* d left-padded with zeros to at least m characters
LeftPad(d, m) ==
    LET width == IF m > Len(d) THEN m ELSE Len(d) IN
    [i \in 1..width |-> IF i <= width - Len(d) THEN "0" ELSE d[i - (width - Len(d))]]

\* What a token stands for once substituted with sweep values p
SweepMeaning(t, p) ==
    IF ~IsPlaceholder(t) THEN t.text
    ELSE IF t.colon THEN LeftPad(Str(p[ParseInt(t.n) + 1]), ParseInt(t.m))
    ELSE Str(p[ParseInt(t.n) + 1])

\* C4: sweep substitution with tuple p replaces every {n} by the decimal string
\* of p[n] and every {n:m} by that string left-padded with zeros to at least m
\* characters; it fails when n >= len(p), when m is outside 1..9, or when p[n]
\* is negative in the {n:m} form.
C4_SweepSubstitution ==
    (swept # NotCalled /\ \A i \in 1..Len(tokens) : IsPlaceholder(tokens[i]) \/ IsPlain(tokens[i])) =>
        /\ ~IsOk(swept) <=> \E i \in 1..Len(tokens) : BadPlaceholder(tokens[i], context)
        /\ IsOk(swept) =>
             swept.val = Flatten([i \in 1..Len(tokens) |-> SweepMeaning(tokens[i], context)])

\* "a{0:3}" has been substituted with p = (7) and gave "a007".
C4_Witness ==
    /\ swept # NotCalled /\ IsOk(swept)
    /\ context = <<7>>
    /\ SourceStr(tokens) = <<"a", "{", "0", ":", "3", "}">>
    /\ swept.val = <<"a", "0", "0", "7">>

RECURSIVE Nesting(_, _, _)
\* The doubled braces of toks[i..] are balanced, `open` of them being open
Nesting(toks, i, open) ==
    IF i > Len(toks) THEN open = 0
    ELSE IF toks[i].text = <<"{", "{">> THEN Nesting(toks, i + 1, open + 1)
    ELSE IF toks[i].text = <<"}", "}">> THEN open > 0 /\ Nesting(toks, i + 1, open - 1)
    ELSE IF toks[i].text = <<"{", "{", "{", "{">> THEN Nesting(toks, i + 1, open + 2)
    ELSE IF toks[i].text = <<"}", "}", "}", "}">> THEN open > 1 /\ Nesting(toks, i + 1, open - 2)
    ELSE Nesting(toks, i + 1, open)

\* A token with its doubled brace undoubled
Undoubled(t) ==
    IF t.text = <<"{", "{">> THEN <<"{">>
    ELSE IF t.text = <<"}", "}">> THEN <<"}">>
    ELSE IF t.text = <<"{", "{", "{", "{">> THEN <<"{", "{">>
    ELSE IF t.text = <<"}", "}", "}", "}">> THEN <<"}", "}">>
    ELSE t.text

\* The string is not empty and its only braces are balanced doubled braces.
OnlyDoubledBraces ==
    /\ tokens # <<>>
    /\ \A i \in 1..Len(tokens) : IsPlain(tokens[i]) \/ IsDoubled(tokens[i])
    /\ Nesting(tokens, 1, 0)

\* C5: for every non-empty string whose only braces are balanced doubled braces,
\* _replacement_transform with the sweep substitution and no sweep values
\* succeeds and yields the string with every '{{' replaced by '{' and every
\* '}}' by '}', all other characters unchanged.
C5_BraceRoundTrip ==
    (transformed # NotCalled /\ context = <<>> /\ OnlyDoubledBraces) =>
        /\ IsOk(transformed)
        /\ transformed.val["commandLine"] = Flatten([i \in 1..Len(tokens) |-> Undoubled(tokens[i])])

\* The round trip of C5 on the strings that hold neither U+E800 nor U+E801
C5_RoundTripWithoutSentinels ==
    (/\ transformed # NotCalled /\ context = <<>> /\ OnlyDoubledBraces
     /\ \A i \in 1..Len(tokens) :
          tokens[i].text \notin {<<LEFT_BRACKET_REPLACE_CHAR>>, <<RIGHT_BRACKET_REPLACE_CHAR>>}) =>
        /\ IsOk(transformed)
        /\ transformed.val["commandLine"] = Flatten([i \in 1..Len(tokens) |-> Undoubled(tokens[i])])

\* The string the substitution function returned inside _replacement_transform
AfterSubstitution == TransformSweepStr(EscapeBraces(SourceStr(tokens)), context)
BraceLeft(r) == IsOk(r) /\ \E i \in 1..Len(r.val) : r.val[i] = "{" \/ r.val[i] = "}"

\* Every brace of the string is doubled or belongs to a placeholder.
AllBracesAccounted ==
    \A i \in 1..Len(tokens) : IsPlain(tokens[i]) \/ IsDoubled(tokens[i]) \/ IsPlaceholder(tokens[i])
\* Exactly one brace of the string is neither doubled nor part of a placeholder.
OneLoneBrace ==
    /\ Cardinality({i \in 1..Len(tokens) : IsSingleBrace(tokens[i])}) = 1
    /\ \A i \in 1..Len(tokens) : ~IsSingleBrace(tokens[i]) =>
          IsPlain(tokens[i]) \/ IsDoubled(tokens[i]) \/ IsPlaceholder(tokens[i])

ReferencesTemplate == ~IsNone(job_in, "applicationTemplateInfo")
\* expand_application_template has returned
TemplateExpanded == pc \in {"expanded", "done"} /\ app_error = "none"
\* expand_task_factory has been applied after it
FactoryApplied == pc = "done" /\ app_error = "none"

\* C7 as stated: after expand_application_template succeeds the job has none
\* of the keys applicationTemplateInfo, templateMetadata, parameters, and after
\* expand_task_factory has then been applied it has no taskFactory either.
C7_NoTemplateKeyRetained ==
    /\ TemplateExpanded =>
         DOMAIN job \cap {"applicationTemplateInfo", "templateMetadata", "parameters"} = {}
    /\ FactoryApplied => ~Has(job, "taskFactory")

\* C7, amended: the three keys are gone from every job that referenced a
\* template; a job that references none is returned as it was handed in; and
\* after expand_task_factory the job has no taskFactory in either case.
C7_TemplateKeysRemoved ==
    /\ (TemplateExpanded /\ ReferencesTemplate) =>
         DOMAIN job \cap {"applicationTemplateInfo", "templateMetadata", "parameters"} = {}
    /\ (pc = "expanded" /\ app_error = "none" /\ ~ReferencesTemplate) => job = job_in
    /\ FactoryApplied => ~Has(job, "taskFactory")

\* A job with its own parameters key went through a template that brought a
\* parameters section and a task factory, and the factory has been expanded
C7_Witness ==
    /\ FactoryApplied /\ ReferencesTemplate
    /\ Has(job_in, "parameters")
    /\ \E path \in DOMAIN fs : {"parameters", "taskFactory"} \subseteq DOMAIN fs[path].obj
    /\ Has(task_factory, "type")

SevenReservedKeys ==
    {"jobManagerTask", "jobPreparationTask", "jobReleaseTask", "commonEnvironmentSettings",
     "usesTaskDependencies", "onAllTasksComplete", "onTaskFailure"}
EightReservedKeys == SevenReservedKeys \cup {"taskFactory"}
\* The checks that precede the reserved-property rule pass: the job names a
\* file and the file can be read
TemplateFileReadable ==
    /\ GetOr(job_in["applicationTemplateInfo"], "filePath", <<>>) # <<>>
    /\ ResolveTemplateFile(job_in, working_dir) \in DOMAIN fs

\* C8 as stated: a job that references a template is rejected when it sets one
\* of the seven keys, and a job that sets none of the seven is not rejected by
\* the reserved-property rule.
C8_SevenKeysReserved ==
    (app_error # "not_called" /\ ReferencesTemplate) =>
        /\ DOMAIN job_in \cap SevenReservedKeys # {} => app_error # "none"
        /\ DOMAIN job_in \cap SevenReservedKeys = {} => app_error # "job_uses_template_property"

\* C8, amended: the reserved keys are eight, taskFactory being one.  A job
\* that sets one of them is rejected, by the reserved-property rule as soon as
\* its template file can be read; a job that sets none is never rejected by
\* that rule.
C8_EightKeysReserved ==
    (app_error # "not_called" /\ ReferencesTemplate) =>
        /\ DOMAIN job_in \cap EightReservedKeys # {} => app_error # "none"
        /\ (DOMAIN job_in \cap EightReservedKeys # {} /\ TemplateFileReadable)
              <=> app_error = "job_uses_template_property"

\* A job whose only reserved key is taskFactory is rejected by the rule
C8_Witness ==
    /\ ReferencesTemplate
    /\ app_error = "job_uses_template_property"
    /\ DOMAIN job_in \cap EightReservedKeys = {"taskFactory"}

ElevenPermittedKeys ==
    {"jobManagerTask", "jobPreparationTask", "jobReleaseTask", "commonEnvironmentSettings",
     "usesTaskDependencies", "onAllTasksComplete", "onTaskFailure", "taskFactory",
     "templateMetadata", "parameters", "metadata"}
SixJobKeys == {"id", "displayName", "priority", "constraints", "poolInfo", "applicationTemplateInfo"}
DeclaredTypesSupported(template) ==
    \A name \in DOMAIN GetOr(template, "parameters", <<>>) :
        /\ Has(template["parameters"][name], "type")
        /\ template["parameters"][name]["type"] \in {"int", "string", "bool"}
Acceptable(template) ==
    DOMAIN template \subseteq ElevenPermittedKeys /\ DeclaredTypesSupported(template)
TemplateRejections ==
    {"template_uses_job_property", "template_uses_unsupported_property",
     "parameter_without_type", "parameter_unsupported_type"}
\* expand_application_template came as far as the template: the job references
\* one, passed its own validation, and the file was read and parsed
TemplateReached ==
    /\ ReferencesTemplate
    /\ app_error \notin {"not_called", "no_file_path", "template_unreadable",
                         "job_uses_template_property", "template_parse_failed"}

\* C9: _validate_application_template accepts a template iff all its keys are
\* among the eleven permitted ones and every declared parameter has a type
\* among int, string, bool; a job-reserved key is rejected as such; and in
\* expand_application_template a template that is not acceptable is rejected by
\* this validation, before anything is rendered and with the job untouched.
C9_TemplateValidation ==
    \A path \in DOMAIN fs : fs[path].json =>
        /\ template_check.err # "not_called" =>
             /\ IsOk(template_check) <=> Acceptable(fs[path].obj)
             /\ ~IsOk(template_check) => template_check.err \in TemplateRejections
             /\ DOMAIN fs[path].obj \cap SixJobKeys # {} =>
                    template_check.err = "template_uses_job_property"
        /\ TemplateReached =>
             /\ app_error \in TemplateRejections <=> ~Acceptable(fs[path].obj)
             /\ app_error \in TemplateRejections => job = job_in
             /\ template_check.err # "not_called" =>
                    (app_error \in TemplateRejections => app_error = template_check.err)

\* A template with a key outside the permitted set has been rejected, by the
\* validation alone and by the expansion, while its parameters are well typed
C9_Witness ==
    /\ template_check.err = "template_uses_unsupported_property"
    /\ app_error = "template_uses_unsupported_property"
    /\ \E path \in DOMAIN fs :
         /\ "foo" \in DOMAIN fs[path].obj
         /\ DeclaredTypesSupported(fs[path].obj)
         /\ Has(fs[path].obj, "parameters")

\* C10: whenever expand_application_template succeeds on a job that references
\* a template, no two entries of the job's metadata list have the same name.
C10_MetadataNamesUnique ==
    (TemplateExpanded /\ ReferencesTemplate) =>
        \A i, j \in 1..Len(job["metadata"]) :
            i # j => job["metadata"][i].name # job["metadata"][j].name

\* What _merge_metadata does ensure: no name of the job's list is a name of
\* the template's list
C10_NoNameInBothLists ==
    (TemplateExpanded /\ ReferencesTemplate) =>
        \A path \in DOMAIN fs :
            \A i \in 1..Len(GetOr(fs[path].obj, "metadata", <<>>)) :
                \A j \in 1..Len(GetOr(job_in, "metadata", <<>>)) :
                    fs[path].obj["metadata"][i].name # job_in["metadata"][j].name


\* The template the job names, and the parameters the job supplies to it
TemplateOf == fs[ResolveTemplateFile(job_in, working_dir)].obj
SuppliedTo == GetOr(job_in["applicationTemplateInfo"], "parameters", <<>>)
\* The metadata entries of the template as they are read from the rendered
\* text
RenderedMetadata ==
    [i \in 1..Len(GetOr(TemplateOf, "metadata", <<>>)) |->
        Update([name |-> TemplateOf["metadata"][i].name],
               LoadedMembers("value", ParseTemplateString(TemplateOf["metadata"][i].value,
                                                          TemplateOf, SuppliedTo).val))]
\* template entries, then job entries, then the entry of the template path
ExpectedMetadata ==
    RenderedMetadata \o GetOr(job_in, "metadata", <<>>)
        \o <<[name |-> TEMPLATE_FILEPATH, value |-> PyStr(ResolveTemplateFile(job_in, working_dir))]>>
\* Only the last entry of the list has a name that starts with az_batch
OnlyLastReserved(metadata) ==
    \A i \in 1..Len(metadata) : StartsWith(metadata[i].name, AZ_BATCH) <=> i = Len(metadata)
\* A metadata name of the template or of the job starts with az_batch
ReservedNameUsed ==
    \/ \E i \in 1..Len(GetOr(TemplateOf, "metadata", <<>>)) :
         StartsWith(TemplateOf["metadata"][i].name, AZ_BATCH)
    \/ \E i \in 1..Len(GetOr(job_in, "metadata", <<>>)) :
         StartsWith(job_in["metadata"][i].name, AZ_BATCH)

\* C11 as stated: whenever expand_application_template succeeds, the job's
\* metadata is the rendered template entries, then the job's own entries, then
\* the az_batch:template_filepath entry, the only one with a reserved name.
C11_MetadataOrderAlways ==
    TemplateExpanded =>
        /\ Has(job, "metadata")
        /\ Len(job["metadata"]) >= 1
        /\ job["metadata"][Len(job["metadata"])].name = TEMPLATE_FILEPATH
        /\ OnlyLastReserved(job["metadata"])
        /\ ReferencesTemplate => job["metadata"] = ExpectedMetadata

\* C11, amended: on a job that references a template a successful expansion
\* leaves the metadata list template entries, job entries, template path, in
\* that order, the last being the only reserved name, and a reserved name in
\* either list makes the call fail; a job that references no template keeps
\* the metadata it had.
C11_MetadataOrder ==
    /\ (TemplateExpanded /\ ReferencesTemplate) =>
         /\ job["metadata"] = ExpectedMetadata
         /\ OnlyLastReserved(job["metadata"])
         /\ ~ReservedNameUsed
    /\ (TemplateExpanded /\ ~ReferencesTemplate) =>
         GetOr(job, "metadata", <<>>) = GetOr(job_in, "metadata", <<>>)

\* A template with two metadata entries has been expanded on a job with one
C11_Witness ==
    /\ TemplateExpanded /\ ReferencesTemplate
    /\ Len(GetOr(TemplateOf, "metadata", <<>>)) = 2
    /\ Len(GetOr(job_in, "metadata", <<>>)) = 1
    /\ Len(job["metadata"]) = 4

\* The job handed in is fully expanded: it has neither an
\* applicationTemplateInfo nor a taskFactory
FullyExpanded == DOMAIN job_in \cap {"applicationTemplateInfo", "taskFactory"} = {}

\* C12: on a job with no applicationTemplateInfo and no taskFactory
\* expand_application_template returns the job unchanged, and
\* expand_task_factory leaves the job unchanged and raises no error.
C12_ExpandedJobIdentity ==
    FullyExpanded =>
        /\ app_error # "not_called" => (app_error = "none" /\ job = job_in)
        /\ pc = "done" => (IsOk(task_objs) /\ job = job_in)

\* What holds of such a job: expand_application_template is the identity, and
\* expand_task_factory leaves the job as it was while raising KeyError
C12_IdentityThenKeyError ==
    FullyExpanded =>
        /\ app_error # "not_called" => (app_error = "none" /\ job = job_in)
        /\ pc = "done" => (task_objs.err = "KeyError" /\ job = job_in)

\* The job references a readable template and supplies the raw value
\* (not a dict) of a parameter the template declares with a supported type
SuppliesRaw(name) ==
    /\ ReferencesTemplate /\ TemplateFileReadable
    /\ fs[ResolveTemplateFile(job_in, working_dir)].json
    /\ Has(SuppliedTo, name)
    /\ TypeOf(SuppliedTo[name]) # "dict"
    /\ Has(GetOr(TemplateOf, "parameters", <<>>), name)
    /\ GetOr(TemplateOf["parameters"][name], "type", "") \in {"int", "bool", "string"}
\* The job handed in, the value of the parameter given as {"value": v}
WrappedJob(name) ==
    [job_in EXCEPT !["applicationTemplateInfo"]["parameters"][name] = PyDict([value |-> @])]
DeclaredType(name) == TemplateOf["parameters"][name]["type"]

\* C16: in expand_application_template a caller value given raw, v, and the
\* same value given wrapped, {"value": v}, are both accepted and yield the same
\* expanded job, for the declared types int, bool and string.
C16_RawAndWrappedAgree ==
    (pc = "expanded" /\ SuppliesRaw("n")) =>
        /\ IsOk(ExpandApplicationTemplate(WrappedJob("n"), working_dir, fs))
        /\ ExpandApplicationTemplate(WrappedJob("n"), working_dir, fs).val = job

\* What holds: the two forms agree for a string parameter, and the wrapped
\* form of an int or bool parameter is rejected by _validate_parameter_usage
C16_WrappedOnlyForStrings ==
    (pc = "expanded" /\ SuppliesRaw("n")) =>
        /\ DeclaredType("n") = "string" =>
             /\ IsOk(ExpandApplicationTemplate(WrappedJob("n"), working_dir, fs))
             /\ ExpandApplicationTemplate(WrappedJob("n"), working_dir, fs).val = job
        /\ DeclaredType("n") = "int" =>
             ExpandApplicationTemplate(WrappedJob("n"), working_dir, fs).err = "parameter_not_int"
        /\ DeclaredType("n") = "bool" =>
             ExpandApplicationTemplate(WrappedJob("n"), working_dir, fs).err = "parameter_not_bool"

(***************************************************************************)
(* Properties of the rendering of a string                                 *)
(***************************************************************************)
\* The value a caller supplies, taken out of {"value": v}
Unwrapped(value) ==
    IF TypeOf(value) = "dict" /\ Has(ValueOf(value), "value") THEN ValueOf(value)["value"]
    ELSE value
\* What the variables of the template stand for: v for lit, w for 'p'
\* followed by the parameter s
VariableValue(name) ==
    IF name = "v" THEN PyStr(<<"l", "i", "t">>)
    ELSE PyStr(<<"p">> \o ValueOf(Unwrapped(render_parameters["s"])))
\* What an argument of concat stands for
ArgValue(arg) ==
    CASE arg.kind = "parameters" -> Unwrapped(render_parameters[arg.name])
      [] arg.kind = "variables" -> VariableValue(arg.name)
      [] OTHER -> PyStr(arg.lit)
\* What an expression piece stands for; concat joins the texts of its arguments
PieceValue(p) ==
    CASE p.kind = "parameters" -> Unwrapped(render_parameters[p.name])
      [] p.kind = "variables" -> VariableValue(p.name)
      [] OTHER -> PyStr(Flatten([i \in 1..Len(p.args) |-> PyStrText(ArgValue(p.args[i]))]))
\* What a piece contributes to the text inside a string literal
PieceText(p) ==
    IF p.kind = "lit" THEN (IF p.text = <<"[", "[">> THEN <<"[">> ELSE p.text)
    ELSE PyStrText(PieceValue(p))
\* The expression is the whole string and its value is a bool, an int or a dict
TypedWhole(ps) ==
    /\ Len(ps) = 1 /\ ps[1].kind # "lit"
    /\ TypeOf(PieceValue(ps[1])) \in {"bool", "int", "dict"}
\* The typed splice: the raw JSON form without quotes for a typed value that
\* is the whole string, the texts inside the quotes otherwise
ExpectedRendering(ps) ==
    IF TypedWhole(ps) THEN JsonDumps(PieceValue(ps[1]))
    ELSE Quote \o Flatten([i \in 1..Len(ps) |-> PieceText(ps[i])]) \o Quote
\* The string is written from literal text and from parameters and variables
\* of the template other than x
SimpleString ==
    \A i \in 1..Len(pieces) :
        pieces[i].kind \in {"lit", "parameters", "variables"} /\ pieces[i].name # "x"

\* C13: an expression that is a whole string value and evaluates to a bool, an
\* int or an object is rendered without the quotes in raw JSON form; in every
\* other case the result stays, as text, inside the string literal; for every
\* valid typed value.
C13_TypedSplice ==
    (rendered # NotCalled /\ SimpleString) =>
        /\ IsOk(rendered)
        /\ rendered.val = ExpectedRendering(pieces)

\* A parameter of the string has a value Python takes for false
FalsyParameterUsed ==
    \E i \in 1..Len(pieces) :
        pieces[i].kind = "parameters" /\ ~PyTruthy(PieceValue(pieces[i]))
\* The last piece is a typed expression that follows an escaped quote
TypedAfterEscapedQuote ==
    /\ Len(pieces) > 1
    /\ pieces[Len(pieces)].kind # "lit"
    /\ TypeOf(PieceValue(pieces[Len(pieces)])) \in {"bool", "int", "dict"}
    /\ pieces[Len(pieces) - 1].text = <<"\\", "\"">>

\* What holds of the splice: a parameter whose value is 0 or false fails the
\* rendering; a typed expression between an escaped quote and the closing
\* quote loses both and leaves a text that no longer ends with a quote; every
\* other string is rendered as C13 says.
C13_SpliceBetweenQuoteCharacters ==
    (rendered # NotCalled /\ SimpleString) =>
        IF FalsyParameterUsed THEN rendered.err = "no_value_supplied"
        ELSE /\ IsOk(rendered)
             /\ IF TypedAfterEscapedQuote
                THEN rendered.val[Len(rendered.val)] # "\""
                ELSE rendered.val = ExpectedRendering(pieces)

\* The definition of parameter x, and whether the caller supplies x
XDefinition == render_template["parameters"]["x"]
XSuppliedByCaller == Has(render_parameters, "x")
\* The value parameters('x') stands for: the caller's, else the default
XChosen ==
    IF XSuppliedByCaller THEN Unwrapped(render_parameters["x"])
    ELSE GetOr(XDefinition, "defaultValue", PyNone)
\* A valid value as a value of the declared type
Coerced(type, value) ==
    CASE type = "int" -> PyInt(PyIntOf(value).val)
      [] type = "bool" ->
           PyBool(value = PyBool(TRUE) \/ Lower(PyStrOf(value)) = <<"t", "r", "u", "e">>)
      [] OTHER -> PyStr(PyStrOf(value))

\* C14: parameters('x') is the caller's value for x when the caller supplies
\* one, else the defaultValue, as a value of the declared type; it fails with
\* 'no value supplied' only when there is neither; every valid int and bool
\* value is returned.
C14_ParameterValue ==
    evaluated # NotCalled =>
        /\ evaluated.err = "no_value_supplied" <=>
              (~XSuppliedByCaller /\ ~Has(XDefinition, "defaultValue"))
        /\ (XSuppliedByCaller \/ Has(XDefinition, "defaultValue")) =>
              /\ IsOk(evaluated)
              /\ evaluated.val = Coerced(XDefinition["type"], XChosen)

\* What holds: the caller's value is preferred to the default, and the call
\* fails with 'no value supplied' exactly when the chosen value is one Python
\* takes for false: None, 0, False
C14_TruthyParameterValue ==
    evaluated # NotCalled =>
        /\ evaluated.err = "no_value_supplied" <=> ~PyTruthy(XChosen)
        /\ PyTruthy(XChosen) =>
              /\ IsOk(evaluated)
              /\ evaluated.val = Coerced(XDefinition["type"], XChosen)

\* The string holds a concat expression
ConcatString == \E i \in 1..Len(pieces) : pieces[i].kind = "concat"
\* The arguments of the concat expression of the string
ConcatArguments == pieces[Len(pieces)].args
\* The argument is a parameter of type int or bool
TypedArg(arg) == arg.kind = "parameters" /\ arg.name \in {"n", "b"}

\* C17: concat splits its argument text at top-level commas only, evaluates
\* the arguments left to right and returns the concatenation of the results
\* as a string, for quoted literals, variables, and parameters of type
\* string, int or bool.
C17_Concat ==
    (rendered # NotCalled /\ ConcatString) =>
        /\ IsOk(rendered)
        /\ rendered.val = ExpectedRendering(pieces)

\* What holds of concat: arguments that stand for strings are split at the
\* top-level commas and concatenated in order; the first argument that is an
\* int or bool parameter fails the call, as a missing value when it is 0 or
\* false and as a TypeError otherwise.
C17_ConcatOfStrings ==
    (rendered # NotCalled /\ ConcatString) =>
        IF \A i \in 1..Len(ConcatArguments) : ~TypedArg(ConcatArguments[i])
        THEN /\ IsOk(rendered)
             /\ rendered.val = ExpectedRendering(pieces)
        ELSE LET first == CHOOSE i \in 1..Len(ConcatArguments) :
                              /\ TypedArg(ConcatArguments[i])
                              /\ \A j \in 1..(i - 1) : ~TypedArg(ConcatArguments[j])
             IN  rendered.err = IF PyTruthy(ArgValue(ConcatArguments[first]))
                                THEN "TypeError" ELSE "no_value_supplied"

(***************************************************************************)
(* Properties of expand_template                                           *)
(***************************************************************************)
\* The property of the rendered job the parameter is spliced into
PropertyOf(param) == IF param = "n" THEN "priority" ELSE "id"
\* The parameter is declared with allowedValues
Restricted(param) ==
    /\ Has(template_json, "parameters")
    /\ Has(template_json["parameters"][param], "allowedValues")
AllowedValues(param) == template_json["parameters"][param]["allowedValues"]
\* The file or the default gives the parameter a value
Preselected(param) ==
    SelectedValue(param, template_json["parameters"][param], parameter_json) # PyNone

\* C15: in expand_template a parameter declared with allowedValues is
\* rendered with a value of allowedValues only, whether the value comes from
\* the parameter file, from defaultValue or from the prompt.
C15_AllowedValuesOnly ==
    IsOk(expanded) =>
        \A param \in {"n", "s"} :
            Restricted(param) => InSeq(expanded.val[PropertyOf(param)], AllowedValues(param))

\* What holds: a value typed at the prompt is kept only if it is among
\* allowedValues, and a value of the file or the default is used as it is
C15_PromptedValuesAllowed ==
    \A param \in DOMAIN param_keys :
        IF Preselected(param)
        THEN param_keys[param] =
               SelectedValue(param, template_json["parameters"][param], parameter_json)
        ELSE (Restricted(param) /\ param_keys[param] # PyNone) =>
               InSeq(param_keys[param], AllowedValues(param))
\* A value typed at the prompt for a parameter with allowedValues is rendered
C15_PromptedWitness ==
    /\ IsOk(expanded)
    /\ prompted # <<>>
    /\ \E param \in {"n", "s"} : Restricted(param) /\ ~Preselected(param)

(***************************************************************************)
(* Properties of the package references                                    *)
(***************************************************************************)
InstallableTypes == {"aptPackage", "yumPackage", "chocolateyPackage"}
\* Two of the references are of different installable types
Mixed(references) ==
    \E i, j \in 1..Len(references) :
        /\ Has(references[i], "type") /\ Has(references[j], "type")
        /\ references[i]["type"] \in InstallableTypes
        /\ references[j]["type"] \in InstallableTypes
        /\ references[i]["type"] # references[j]["type"]
\* The references of the pool, and those of all tasks in the order of the tasks
PoolReferences ==
    IF Has(pool, "packageReferences") /\ TypeOf(pool["packageReferences"]) = "list"
    THEN ValueOf(pool["packageReferences"]) ELSE <<>>
ReferencesOf(task) ==
    IF Has(task, "packageReferences") /\ TypeOf(task["packageReferences"]) = "list"
    THEN ValueOf(task["packageReferences"]) ELSE <<>>
TaskReferences == Flatten([i \in 1..Len(tasks_in) |-> ReferencesOf(tasks_in[i])])

\* C18: process_pool_package_references and process_task_package_references
\* fail whenever the references they are given include two different types
\* among aptPackage, yumPackage, chocolateyPackage.
C18_MixedTypesFail ==
    /\ (pool_cmd # NotCalled /\ Mixed(PoolReferences)) => ~IsOk(pool_cmd)
    /\ (task_cmd # NotCalled /\ Mixed(TaskReferences)) => ~IsOk(task_cmd)

\* What holds: the pool's references never mix types in a call that
\* succeeds, and neither do the packages kept after the references of the
\* tasks were de-duplicated by id
C18_MixedPackagesFail ==
    /\ (pool_cmd # NotCalled /\ Mixed(PoolReferences)) => ~IsOk(pool_cmd)
    /\ (task_cmd # NotCalled /\ Mixed(packages)) => ~IsOk(task_cmd)
\* The references of the tasks mix types and the call succeeds
C18_MixedTasksSucceed == IsOk(task_cmd) /\ Mixed(TaskReferences)

\* The type of the reference is the one of a package manager of the flavor
TypeMatches(reference, flavor) ==
    /\ Has(reference, "type")
    /\ \/ reference["type"] \in {"aptPackage", "yumPackage"} /\ flavor = LINUX
       \/ reference["type"] = "chocolateyPackage" /\ flavor = WINDOWS
\* The call returned a command
ReturnsCommand(cmd) == IsOk(cmd) /\ Has(cmd.val, "cmdLine")
\* A command for the references under the flavor has matching types and
\* isWindows for windows only; an aptPackage under windows has no command
FlavorMatches(cmd, references, flavor) ==
    /\ ReturnsCommand(cmd) =>
          /\ \A i \in 1..Len(references) : TypeMatches(references[i], flavor)
          /\ cmd.val["isWindows"] = (flavor = WINDOWS)
    /\ (cmd # NotCalled /\ flavor = WINDOWS
          /\ \E i \in 1..Len(references) :
                Has(references[i], "type") /\ references[i]["type"] = "aptPackage")
       => ~IsOk(cmd)

\* C19: _get_installation_cmdline returns a command only if every reference's
\* type matches the OS flavor (apt and yum on linux, chocolatey on windows,
\* applicationPackage and unknown types never); in a successful non-empty
\* result isWindows is true exactly when the flavor is windows; an aptPackage
\* on a Windows pool is an error.
C19_FlavorMatch ==
    /\ FlavorMatches(pool_cmd, PoolReferences, os_flavor)
    /\ FlavorMatches(task_cmd, packages, os_flavor)
\* A command is returned for a pool of either flavor
C19_Witness == ReturnsCommand(pool_cmd) /\ pool_cmd.val["isWindows"]
C19_LinuxWitness == ReturnsCommand(pool_cmd) /\ os_flavor = LINUX /\ Len(PoolReferences) = MaxRefs

RECURSIVE FirstOccurrences(_, _)
\* ids without the repetitions of an id met before
FirstOccurrences(ids, met) ==
    IF ids = <<>> THEN met
    ELSE FirstOccurrences(Tail(ids), IF InSeq(Head(ids), met) THEN met ELSE Append(met, Head(ids)))
\* The ids of a list of references
Ids(references) == [i \in 1..Len(references) |-> references[i]["id"]]

\* C20: when process_task_package_references succeeds, no task keeps a
\* packageReferences key, and the packages the command is built from hold
\* each package id exactly once, in the order of first occurrence across the
\* tasks.
C20_StrippedAndDeduplicated ==
    IsOk(task_cmd) =>
        /\ \A i \in 1..Len(tasks) : ~Has(tasks[i], "packageReferences")
        /\ Len(tasks) = Len(tasks_in)
        /\ Ids(packages) = FirstOccurrences(Ids(TaskReferences), <<>>)
        /\ \A i, j \in 1..Len(packages) : packages[i]["id"] = packages[j]["id"] => i = j
\* A command is built from two packages of tasks that name one of them twice
C20_Witness ==
    /\ ReturnsCommand(task_cmd)
    /\ Len(packages) = 2
    /\ Len(TaskReferences) > 2

(***************************************************************************)
(* Properties of the output-file rewriting                                 *)
(***************************************************************************)
\* the call of process_job_for_output_files returned
OutputProcessed == pc = "done" /\ IsOk(setup)
\* a task has output files
HasOutputFiles(task) == Has(task, "outputFiles") /\ task["outputFiles"] # PyNone
\* the output files a task was supplied with
SuppliedOutputFiles(task) == ValueOf(task["outputFiles"])
\* an output file as the uploader is told of it: the file group of an
\* autoStorage destination is replaced by a container with the SAS of the group
Uploaded(output_file) ==
    IF Has(output_file["destination"], "autoStorage")
    THEN [filePattern |-> output_file["filePattern"],
          uploadDetails |-> output_file["uploadDetails"],
          destination |->
             [container |->
                 Update([containerSas |->
                            GetContainerSas(output_file["destination"]["autoStorage"]["fileGroup"])],
                        [k \in DOMAIN output_file["destination"]["autoStorage"] \ {"fileGroup"} |->
                            output_file["destination"]["autoStorage"][k]])]]
    ELSE output_file
\* the environment settings a task was supplied with
SuppliedSettings(task) == GetOr(task, "environmentSettings", <<>>)
\* the rewritten task has no outputFiles and one more environment setting,
\* the last, named AZ_BATCH_FILE_UPLOAD_CONFIG
UploadConfigAppended(task, rewritten) ==
    /\ ~Has(rewritten, "outputFiles")
    /\ Has(rewritten, "environmentSettings")
    /\ Len(rewritten["environmentSettings"]) = Len(SuppliedSettings(task)) + 1
    /\ SubSeq(rewritten["environmentSettings"], 1, Len(SuppliedSettings(task))) = SuppliedSettings(task)
    /\ rewritten["environmentSettings"][Len(rewritten["environmentSettings"])]["name"]
         = "AZ_BATCH_FILE_UPLOAD_CONFIG"
\* the value of the appended setting, parsed as JSON
UploadConfig(rewritten) ==
    JsonLoads(rewritten["environmentSettings"][Len(rewritten["environmentSettings"])]["value"])
\* the tasks of the call: those of the list and the job manager task, as
\* supplied and as rewritten
SuppliedAndRewritten ==
    {<<tasks_in[i], tasks[i]>> : i \in 1..Len(tasks_in)}
      \cup (IF Has(job_in, "jobManagerTask")
            THEN {<<job_in["jobManagerTask"], job["jobManagerTask"]>>} ELSE {})

\* C21 (as amended): every task with valid outputFiles is rewritten to a task
\* without outputFiles whose environment settings are the supplied ones
\* followed by one setting named AZ_BATCH_FILE_UPLOAD_CONFIG; its value,
\* parsed as JSON, is an object with the one key outputFiles, holding the
\* supplied output files with every autoStorage destination replaced by the
\* container of its file group.
C21_UploadConfig ==
    OutputProcessed =>
        \A pair \in SuppliedAndRewritten :
            HasOutputFiles(pair[1]) =>
                /\ UploadConfigAppended(pair[1], pair[2])
                /\ DOMAIN UploadConfig(pair[2]) = {"outputFiles"}
                /\ UploadConfig(pair[2])["outputFiles"]
                     = [i \in 1..Len(SuppliedOutputFiles(pair[1])) |->
                           Uploaded(SuppliedOutputFiles(pair[1])[i])]
\* C21 witness: a task with an autoStorage destination and with environment
\* settings of its own was rewritten
C21_Witness ==
    /\ OutputProcessed
    /\ \E i \in 1..Len(tasks_in) :
          /\ HasOutputFiles(tasks_in[i])
          /\ SuppliedOutputFiles(tasks_in[i]) # <<>>
          /\ Has(SuppliedOutputFiles(tasks_in[i])[1]["destination"], "autoStorage")
    /\ \E i \in 1..Len(tasks_in) :
          HasOutputFiles(tasks_in[i]) /\ Len(SuppliedSettings(tasks_in[i])) = 2
\* C21 as stated: the value of the setting parses back to the output files
\* as they were supplied (read through the outputFiles key of the value)
C21_ValueIsSuppliedOutputFiles ==
    OutputProcessed =>
        \A pair \in SuppliedAndRewritten :
            HasOutputFiles(pair[1]) =>
                /\ UploadConfigAppended(pair[1], pair[2])
                /\ UploadConfig(pair[2])["outputFiles"] = SuppliedOutputFiles(pair[1])
\* a task of the call had outputFiles and was rewritten
SomeTaskRewritten ==
    \E pair \in SuppliedAndRewritten : HasOutputFiles(pair[1]) /\ pair[2] # pair[1]
\* C22: when process_job_for_output_files returns, it returns a descriptor
\* exactly when the job manager task or a task of the list had outputFiles
\* and was rewritten; when it returns None the job and the tasks are what
\* they were; isWindows of the descriptor is true exactly for the flavor
\* windows.
C22_DescriptorIffRewritten ==
    OutputProcessed =>
        /\ (setup.val # PyNone) <=> SomeTaskRewritten
        /\ setup.val = PyNone => job = job_in /\ tasks = tasks_in
        /\ setup.val # PyNone => (setup.val["isWindows"] <=> os_flavor = WINDOWS)
\* C22 witness: a descriptor for linux, one task of two being rewritten
C22_Witness ==
    /\ OutputProcessed
    /\ setup.val # PyNone
    /\ ~setup.val["isWindows"]
    /\ Len(tasks) = 2 /\ tasks[1] = tasks_in[1] /\ tasks[2] # tasks_in[2]
\* C22 witness: None for a job with a job manager task and two tasks
C22_NoneWitness ==
    /\ OutputProcessed
    /\ setup.val = PyNone
    /\ Has(job, "jobManagerTask") /\ Len(tasks) = 2
\* the base URL: FILE_EGRESS_OVERRIDE_URL when set and the default when
\* not, with a last '/' when it has none
BaseUrl ==
    IF Has(environ, "FILE_EGRESS_OVERRIDE_URL")
    THEN IF environ["FILE_EGRESS_OVERRIDE_URL"][Len(environ["FILE_EGRESS_OVERRIDE_URL"])] = "/"
         THEN environ["FILE_EGRESS_OVERRIDE_URL"]
         ELSE environ["FILE_EGRESS_OVERRIDE_URL"] \o <<"/">>
    ELSE <<"https:", "/", "/", "raw.githubusercontent.com", "/", "Azure", "/",
           "azure-batch-cli-extensions", "/", "master", "/">>
\* the files the descriptor has to list
StagedFiles ==
    {"batchfileuploader.py", "configuration.py", "requirements.txt", "setup_uploader.py",
     "uploader.py", "util.py", "uploadfiles.py"}
      \cup (IF os_flavor = WINDOWS THEN {"bootstrap.cmd"} ELSE {})
\* a descriptor was returned
DescriptorReturned == OutputProcessed /\ setup.val # PyNone
\* C23 (as amended): the descriptor lists exactly the seven uploader files,
\* and bootstrap.cmd for windows only; filePath is the name of the file and
\* blobSource is the base URL, with a '/' at its end, followed by
\* azure/cli/command_modules/batch_extensions/fileegress/ and the name.
C23_ResourceFiles ==
    DescriptorReturned =>
        setup.val["resourceFiles"]
          = {[filePath |-> <<name>>,
              blobSource |-> BaseUrl \o <<"azure", "/", "cli", "/", "command_modules", "/",
                                          "batch_extensions", "/", "fileegress", "/", name>>] :
                name \in StagedFiles}
\* C23 witness: a descriptor for windows under an override URL without a
\* last '/'
C23_Witness ==
    /\ DescriptorReturned
    /\ os_flavor = WINDOWS
    /\ Has(environ, "FILE_EGRESS_OVERRIDE_URL")
    /\ environ["FILE_EGRESS_OVERRIDE_URL"][Len(environ["FILE_EGRESS_OVERRIDE_URL"])] # "/"
\* C23 as stated: blobSource is the base URL, a '/' and the name of the file
C23_BaseSlashName ==
    DescriptorReturned =>
        setup.val["resourceFiles"]
          = {[filePath |-> <<name>>, blobSource |-> BaseUrl \o <<name>>] : name \in StagedFiles}
\* a task of the list was rewritten by process_job_for_output_files
ListedTaskRewritten == \E i \in 1..Len(tasks_in) : tasks[i] # tasks_in[i]
\* a task of the list has a package reference for process_task_package_references
PackageReferenced ==
    \E i \in 1..Len(tasks_in) :
        /\ Has(tasks_in[i], "packageReferences")
        /\ ValueOf(tasks_in[i]["packageReferences"]) # <<>>
\* no task of the list has one of the three keys
NoneOfTheKeys ==
    \A i \in 1..Len(tasks_in) :
        /\ ~Has(tasks_in[i], "packageReferences")
        /\ ~Has(tasks_in[i], "outputFiles")
        /\ ~(Has(tasks_in[i], "clientExtensions")
               /\ Has(tasks_in[i]["clientExtensions"], "dockerOptions"))
\* C29: should_get_pool returns true for every list of which
\* process_job_for_output_files rewrites a task or of which a task has a
\* package reference to consume, and false for a list no task of which has
\* packageReferences, outputFiles or clientExtensions.dockerOptions.
C29_ConsistentWithRewriters ==
    OutputProcessed =>
        /\ ListedTaskRewritten \/ PackageReferenced => get_pool.val
        /\ NoneOfTheKeys => ~get_pool.val
\* what holds: should_get_pool returns true exactly for the lists that have
\* a task with a list of packageReferences or of outputFiles that is not
\* empty, or with dockerOptions
C29_TruthyKeys ==
    OutputProcessed =>
        (get_pool.val <=>
            \E i \in 1..Len(tasks_in) :
                \/ \E key \in {"packageReferences", "outputFiles"} :
                      /\ Has(tasks_in[i], key)
                      /\ tasks_in[i][key] # PyNone
                      /\ Len(ValueOf(tasks_in[i][key])) > 0
                \/ /\ Has(tasks_in[i], "clientExtensions")
                   /\ Has(tasks_in[i]["clientExtensions"], "dockerOptions"))
\* the list of the one task {commandLine, outputFiles: []} was rewritten
C29_EmptyOutputFiles ==
    /\ OutputProcessed
    /\ Len(tasks_in) = 1 /\ HasOutputFiles(tasks_in[1]) /\ SuppliedOutputFiles(tasks_in[1]) = <<>>
    /\ ListedTaskRewritten
    /\ ~get_pool.val
(***************************************************************************)
(* Properties of the prompt loop of expand_template                        *)
(***************************************************************************)
\* the answers that are integers, and the integers they are
IntAnswers == (<<"0">> :> 0) @@ (<<"7">> :> 7) @@ (<<"9">> :> 9)
\* the value an answer stands for under the definition of a parameter
AnswerValue(content, answer) ==
    IF content["type"] = "int" THEN PyInt(IntAnswers[answer]) ELSE PyStr(answer)
\* an answer is a value of the type of the parameter, and among
\* allowedValues when the parameter has them
ValidAnswer(content, answer) ==
    /\ IF content["type"] = "int" THEN answer \in DOMAIN IntAnswers ELSE answer # <<>>
    /\ Has(content, "allowedValues") =>
          InSeq(AnswerValue(content, answer), content["allowedValues"])
\* the parameter that is asked for and the answer that is given in a step
\* of the prompt
Asked == Head(AwaitedParameters)
Answer == prompted'[Len(prompted')]

UnmatchedBracket ==
    /\ \E i \in 1..Len(pieces) : pieces[i].kind = "open"
    /\ \A i \in 1..Len(pieces) : pieces[i].kind \in {"open", "lit"}
\* C26: a string literal with a '[' that is not doubled and has no matching
\* ']' inside the literal is rendered without failure, and is left as it is.
C26_UnmatchedBracketKept ==
    (rendered # NotCalled /\ UnmatchedBracket) =>
        /\ IsOk(rendered)
        /\ rendered.val = StringContent(pieces)
\* what holds: the search for the ']' runs into the quote that ends the
\* literal, looks for a quote that closes it, and fails
C26_UnmatchedBracketFails ==
    (rendered # NotCalled /\ UnmatchedBracket) => rendered.err = "ValueError"
\* the string "a[b" was handed to _parse_template_string
C26_Reached ==
    /\ rendered # NotCalled
    /\ StringContent(pieces) = <<"\"", "a", "[", "b", "\"">>

\* the text between the brackets of a bare piece
BareExpression(p) == SubSeq(p.text, 2, Len(p.text) - 1)
\* the string is written from the letter a and from bare expressions
BareString ==
    /\ \E i \in 1..Len(pieces) : pieces[i].kind = "bare"
    /\ \A i \in 1..Len(pieces) : pieces[i].kind \in {"bare", "lit"}
\* C27: an expression text that is not in brackets or parentheses, is no
\* quoted literal and has none of the forms parameters('..'),
\* variables('..'), concat(..), reference.. is returned unchanged, as a
\* literal, whatever its length, the empty text included: the string is
\* rendered with the text in the place of the expression.
C27_LiteralFallback ==
    (rendered # NotCalled /\ BareString) =>
        /\ IsOk(rendered)
        /\ rendered.val
             = Quote \o Flatten([i \in 1..Len(pieces) |->
                                   IF pieces[i].kind = "bare" THEN BareExpression(pieces[i])
                                   ELSE pieces[i].text]) \o Quote
\* what holds: the empty text fails on its first character, a text that
\* begins with the word parameters is taken for a parameter, and any other
\* such text is returned unchanged
C27_LiteralOfNonEmptyText ==
    (rendered # NotCalled /\ BareString) =>
        IF \E i \in 1..Len(pieces) : pieces[i].kind = "bare" /\ BareExpression(pieces[i]) = <<>>
        THEN rendered.err = "IndexError"
        ELSE IF \E i \in 1..Len(pieces) :
                   pieces[i].kind = "bare" /\ Len(BareExpression(pieces[i])) = 10
        THEN rendered.err = "parameter_undefined"
        ELSE /\ IsOk(rendered)
             /\ rendered.val
                  = Quote \o Flatten([i \in 1..Len(pieces) |->
                                        IF pieces[i].kind = "bare" THEN BareExpression(pieces[i])
                                        ELSE pieces[i].text]) \o Quote
\* the string "a[]" was handed to _parse_template_string
C27_Reached ==
    /\ rendered # NotCalled
    /\ StringContent(pieces) = <<"\"", "a", "[", "]", "\"">>
(***************************************************************************)
(* Properties of the merge of the template into the job                    *)
(***************************************************************************)
\* the properties of a job that a template may not set
JobReserved == {"id", "displayName", "priority", "constraints", "poolInfo"}
\* a value of the job closes the string of the template it is put in and
\* goes on with a property of its own
SmugglingSupplied ==
    /\ ~IsNone(job_in, "applicationTemplateInfo")
    /\ Has(job_in["applicationTemplateInfo"], "parameters")
    /\ Has(job_in["applicationTemplateInfo"]["parameters"], "n")
    /\ TypeOf(job_in["applicationTemplateInfo"]["parameters"]["n"]) = "str"
    /\ InSeq("\"", ValueOf(job_in["applicationTemplateInfo"]["parameters"]["n"]))
\* C25: when expand_application_template succeeds, the job has id,
\* displayName, priority, constraints and poolInfo with the values it had, or
\* is without them as it was, whatever the template renders to.
C25_ReservedFrame ==
    pc = "expanded" =>
        \A k \in JobReserved :
            /\ Has(job, k) <=> Has(job_in, k)
            /\ Has(job_in, k) => job[k] = job_in[k]
\* C25 witness: the call succeeded on a job with priority and displayName
\* whose parameter smuggled a property into the rendered template
C25_Witness ==
    /\ pc = "expanded"
    /\ SmugglingSupplied
    /\ Has(job_in, "priority") /\ Has(job_in, "displayName")
    /\ Has(job, "usesTaskDependencies") /\ ~Has(job_in, "usesTaskDependencies")

====
